---- MODULE Spec2Model ----
(***************************************************************************)
(* A model of the v380-4g-stream client: the crypto primitives             *)
(* (src/v380_4g/crypto.py), the control-channel login                      *)
(* (src/v380_4g/client.py) and the stream demultiplexer / frame            *)
(* reassembler (src/v380_4g/stream.py).                                    *)
(*                                                                         *)
(* Bytes are naturals 0..255 and byte strings are sequences of them.       *)
(* Cursors (pos) are 0-based as in the source; At and Slice convert.       *)
(* Python integers wider than 31 bits (handle, session, the key magics)    *)
(* are written as little-endian sequences of 16-bit limbs.                 *)
(***************************************************************************)
EXTENDS Integers, Sequences, FiniteSets, TLC

VARIABLES
    \* ---- V380Client (client.py:47-56)
    sock,                \* self.socket: "none" | "unconnected" | "connected"
    session,             \* self.session: limbs, <<>> is None
    handle,              \* self.handle: limbs, <<>> is None
    aes_key,             \* self.aes_key / self.cipher: 16 bytes, <<>> is None
    audio_supported,     \* self.audio_supported
    battery_level,       \* self.battery_level, -1 is None
    \* ---- the last client call and what it returned (observer)
    op,
    \* ---- StreamRecorder (stream.py:38-42) and the locals of record()
    frame_chunks,        \* self._frame_chunks: whether 'current' is a key, and its list
    current_frame_start, \* self._current_frame_start, -1 is None
    current_total,       \* self._current_total
    current_is_iframe,   \* self._current_is_iframe
    buffer,              \* record(): buffer
    video_f,             \* bytes written to the .h265 file
    audio_f,             \* bytes written to the .aac file
    pc,                  \* record(): "idle" | "check" | "loop" | "closed" | "returned"
    \* ---- the relay: bytes in flight on the stream socket
    wire,                \* segments not yet returned by recv
    sent,                \* every packet the camera has sent (history)
    cut,                 \* the packet the last recv ended inside, and where
    split,               \* whether some recv so far ended inside a packet
    \* ---- observers of the reassembler
    log,                 \* one record per call of _decrypt_frame
    npkts,               \* video packets parsed so far
    open_first,          \* the open frame's fragment_index 0 packet: ordinal, kind, key in force
    step,                \* the last packet the parse loop handled, and what it did
    \* ---- decrypt_64_80 applied to an input
    c_in, c_out, c_done,
    \* ---- the stream socket made by the last create_stream_socket call
    stream_sock,         \* "none" | "open" | "closed"
    s_out,               \* what was sent on it: records [pkt, why, t]
    css,                 \* the last create_stream_socket call and its result (observer)
    \* ---- main() (v380_stream.py) and the rest of record()'s locals
    m_pc,                \* main(): "idle" | "connect" | "login" | "set_handle" | "record" | "exited"
    exit_code,           \* the process exit status, -1 while running
    args,                \* the parsed command line
    now,                 \* int(time.time())
    start_time,          \* record(): start_time
    stop_flag,           \* stream.py:19  _stop_recording
    sigint,              \* the installed SIGINT handler: "previous" | "recorder"
    files,               \* video_f, audio_f, raw_f: "none" | "open" | "closed"
    rec_ret,             \* what record() returned: "none" | "path" | "None"
    ev,                  \* how the last loop iteration went (observer)
    m_log,               \* what connect, login and set_handle returned to main() (observer)
    \* ---- RTPPacketizer (rtsp_server.py:20-24)
    sequence,            \* self.sequence
    timestamp,           \* self.timestamp: limbs
    ssrc,                \* self.ssrc: limbs
    \* ---- packetize_nal applied to a NAL
    nal_in, pkts_out, p_done,
    \* ---- RTSPServer (rtsp_server.py:86-99) and its control connections
    running,             \* self.running
    clients,             \* self.clients: the control connection of each entry
    conns,               \* per control connection: its handler thread's position and rtp_sock
    rx,                  \* per control connection: the RTP packets sent to its viewer (observer)
    nframes,             \* calls of send_frame so far
    params,              \* self.vps, self.sps, self.pps
    sdp,                 \* the SDP of the last DESCRIBE answered (observer)
    \* ---- RTSPServer.lock and the threads that use it
    lock,                \* self.lock: the thread that holds it, or Free
    th                   \* per thread: where it is with respect to the lock

clientVars == <<sock, session, handle, aes_key, audio_supported, battery_level, op>>
recVars    == <<frame_chunks, current_frame_start, current_total, current_is_iframe,
                buffer, video_f, audio_f, pc>>
relayVars  == <<wire, sent, cut, split>>
obsVars    == <<log, npkts, open_first, step>>
cryptoVars == <<c_in, c_out, c_done>>
sockVars   == <<stream_sock, s_out, css>>
runVars    == <<m_pc, exit_code, args, now, start_time, stop_flag, sigint, files,
                rec_ret, ev, m_log>>
rtpVars    == <<sequence, timestamp, ssrc>>
pktVars    == <<nal_in, pkts_out, p_done>>
rtspVars   == <<running, clients, conns, rx, nframes>>
sdpVars    == <<params, sdp>>
lockVars   == <<lock, th>>
serverVars == <<rtpVars, pktVars, rtspVars, sdpVars, lockVars>>
vars       == <<clientVars, recVars, relayVars, obsVars, cryptoVars, sockVars, runVars,
                serverVars>>

---------------------------------------------------------------------------
(* Byte strings                                                            *)

\* data[i] with a 0-based index
At(data, i) == data[i + 1]

Min(a, b) == IF a < b THEN a ELSE b

\* data[a:b] with Python's clamping of both ends
Slice(data, a, b) == SubSeq(data, Min(a, Len(data)) + 1, Min(b, Len(data)))

\* data[a:]
SliceFrom(data, a) == Slice(data, a, Len(data))

RECURSIVE SumBytes(_)
SumBytes(s) == IF s = <<>> THEN 0 ELSE Head(s) + SumBytes(Tail(s))

RECURSIVE Concat(_)
Concat(ss) == IF ss = <<>> THEN <<>> ELSE Head(ss) \o Concat(Tail(ss))

\* struct.pack of one 16-bit limb, little-endian
LimbBytes(l) == <<l % 256, l \div 256>>

RECURSIVE LimbsBytes(_)
LimbsBytes(ls) == IF ls = <<>> THEN <<>> ELSE LimbBytes(Head(ls)) \o LimbsBytes(Tail(ls))

---------------------------------------------------------------------------
(* crypto.py                                                               *)

\* 0x618123462C14795C
MAGIC_1 == <<31068, 11284, 9030, 24961>>
\* 0x82800DF0
MAGIC_2 == <<3568, 33408>>

\* struct.pack("<I", handle) succeeds: handle is an int in 0..2^32-1
PacksAsU32(h) == Len(h) = 2

\* A slip in the key layout: the two magics swapped in order
generate_aes_key_swapped(h) == LimbsBytes(h) \o LimbsBytes(MAGIC_2) \o LimbsBytes(MAGIC_1)

\* generate_aes_key(handle), for a handle that packs
generate_aes_key(h) == LimbsBytes(h) \o LimbsBytes(MAGIC_1) \o LimbsBytes(MAGIC_2)

\* cipher.decrypt(block) of one 16-byte block under AES-ECB: a keyed map of
\* blocks in which every output byte depends on the key, on the whole block
\* and on its place, and differs from the input byte.
AESDecryptBlock(key, block) ==
    LET k == SumBytes(key)
        b == SumBytes(block)
    IN  [j \in 1..Len(block) |-> (block[j] + 1 + ((k + b + j) % 255)) % 256]

\* A slip in the window test: > instead of >=
FullGroupStrict(remaining) == remaining > 64

\* crypto.py:64  if remaining >= 64
FullGroup(remaining) == remaining >= 64

\* crypto.py:66-68  the four blocks of one group
DecryptGroup(data, key, pos) ==
    Concat([i \in 1..4 |->
        AESDecryptBlock(key, Slice(data, pos + (i-1)*16, pos + (i-1)*16 + 16))])

RECURSIVE D6480Loop(_, _, _, _)
D6480Loop(data, key, pos, result) ==
    IF ~(pos < Len(data)) THEN result
    ELSE LET remaining == Len(data) - pos IN
         IF FullGroup(remaining)
         THEN LET r1   == result \o DecryptGroup(data, key, pos)
                  p1   == pos + 64
                  raw  == Min(16, Len(data) - p1)
              IN  IF raw > 0
                  THEN D6480Loop(data, key, p1 + raw, r1 \o Slice(data, p1, p1 + raw))
                  ELSE D6480Loop(data, key, p1, r1)
         ELSE result \o SliceFrom(data, pos)

decrypt_64_80(data, key) == D6480Loop(data, key, 0, <<>>)

RECURSIVE AudioBlocks(_, _, _)
AudioBlocks(data, key, i) ==
    IF i < Len(data) - 15
    THEN AESDecryptBlock(key, Slice(data, i, i + 16)) \o AudioBlocks(data, key, i + 16)
    ELSE <<>>

decrypt_audio(data, key) ==
    LET remaining == Len(data) % 16
    IN  AudioBlocks(data, key, 0)
        \o (IF remaining # 0 THEN SliceFrom(data, Len(data) - remaining) ELSE <<>>)

---------------------------------------------------------------------------
(* client.py: the control channel and login                                *)

\* None, for the optional integers held as limbs and for aes_key
None == <<>>

\* Integers the API server may put in a login response
H222      == <<222, 0>>
HMaxU32   == <<65535, 65535>>
HTooWide  == <<0, 0, 1>>
S111      == <<111, 0>>
S7        == <<7, 0>>

\* A parsed JSON object of the shapes a login response takes (key absent:
\* has_* FALSE, number None); the empty dict is EmptyDict.
JsonValue(hasv, s, h, haspri, bat, aud, res, c) ==
    [has_v380 |-> hasv, session |-> s, handle |-> h,
     has_pri |-> haspri, battery |-> bat, audio |-> aud,
     result |-> res, code |-> c]

EmptyDict == JsonValue(FALSE, None, None, FALSE, -1, 0, "absent", 0)

JsonValues ==
    { EmptyDict,
      JsonValue(TRUE,  S111, H222,     TRUE,  80, 1, "absent", 0),
      JsonValue(TRUE,  S7,   HMaxU32,  FALSE, -1, 0, "absent", 0),
      JsonValue(TRUE,  S7,   H222,     TRUE,  80, 0, "object", 0),
      JsonValue(TRUE,  S7,   HMaxU32,  FALSE, -1, 0, "object", 5),
      JsonValue(TRUE,  S111, H222,     FALSE, -1, 0, "scalar", 0),
      JsonValue(TRUE,  S111, None,     FALSE, -1, 0, "absent", 0),
      JsonValue(TRUE,  S111, HTooWide, FALSE, -1, 0, "absent", 0),
      JsonValue(FALSE, None, None,     FALSE, -1, 0, "object", 5),
      JsonValue(FALSE, None, None,     FALSE, -1, 0, "object", 0) }

\* The decimal text of the numbers above
NumText(n) ==
    CASE n = H222     -> "222"
      [] n = HMaxU32  -> "4294967295"
      [] n = HTooWide -> "4294967296"
      [] n = S111     -> "111"
      [] n = S7       -> "7"

SmallText(n) ==
    CASE n = 0  -> "0"
      [] n = 1  -> "1"
      [] n = 5  -> "5"
      [] n = 80 -> "80"

\* The server's serialisation of a value: a text of tokens, braces kept as
\* tokens of their own because the client's scan counts them.
DumpV380(v) ==
    IF ~v.has_v380 THEN <<>>
    ELSE <<"v380", "{">>
         \o (IF v.session # None THEN <<"session", NumText(v.session)>> ELSE <<>>)
         \o (IF v.handle # None THEN <<"handle", NumText(v.handle)>> ELSE <<>>)
         \o (IF v.has_pri
             THEN <<"pri", "{", "battery", SmallText(v.battery),
                    "audio", SmallText(v.audio), "}">>
             ELSE <<>>)
         \o <<"}">>

DumpResult(v) ==
    CASE v.result = "absent" -> <<>>
      [] v.result = "object" -> <<"result", "{", "code", SmallText(v.code), "}">>
      [] v.result = "scalar" -> <<"result", "5">>

Dump(v) == <<"{">> \o DumpV380(v) \o DumpResult(v) \o <<"}">>

\* json.loads: the value whose text this is, or an error
JsonLoads(text) ==
    IF \E v \in JsonValues : Dump(v) = text
    THEN [ok |-> TRUE, val |-> CHOOSE v \in JsonValues : Dump(v) = text]
    ELSE [ok |-> FALSE, val |-> EmptyDict]

\* text.find('{'): 0-based, -1 when there is none
RECURSIVE FindBrace(_, _)
FindBrace(text, i) ==
    IF i >= Len(text) THEN -1
    ELSE IF At(text, i) = "{" THEN i ELSE FindBrace(text, i + 1)

\* client.py:217-223: the index (0-based) at which depth returns to 0, or -1
RECURSIVE MatchEnd(_, _, _)
MatchEnd(text, i, depth) ==
    IF i >= Len(text) THEN -1
    ELSE LET d == IF At(text, i) = "{" THEN depth + 1
                  ELSE IF At(text, i) = "}" THEN depth - 1 ELSE depth
         IN  IF At(text, i) = "}" /\ d = 0 THEN i ELSE MatchEnd(text, i + 1, d)

\* client.py:213-233: what _send_json_rpc returns for the bytes recv gave it
ParseResponse(text) ==
    LET start == FindBrace(text, 0) IN
    IF start < 0 THEN EmptyDict
    ELSE LET e == MatchEnd(text, start, 0) IN
         IF e < 0 THEN EmptyDict
         ELSE LET r == JsonLoads(Slice(text, start, e + 1)) IN
              IF ~r.ok THEN EmptyDict                      \* json.loads raised
              ELSE IF r.val.result = "scalar" THEN EmptyDict \* 'code' in 5 raised
              ELSE r.val

\* The responses the control socket may return to a login request
Responses ==
    { <<"~", "~">> \o Dump(v) : v \in JsonValues \ {EmptyDict} }
    \cup { Dump(v) : v \in JsonValues }
    \cup { <<>>,                                    \* connection closed
           <<"~", "~", "~">>,                       \* no object at all
           <<"{", "v380", "}">>,                    \* delimited, not JSON
           <<"{", "v380", "{", "session", "111">> } \* a partial response

\* bool(response) of a dict
Truthy(v) == v.has_v380 \/ v.result # "absent"

\* client.py:161  if response and 'v380' in response
LoginAccepts(response) == Truthy(response) /\ response.has_v380

\* client.py:63-66
is_connected == session # None /\ handle # None

\* What the observer records of a client call
OpRecord(name, ret, io, text, requests) ==
    [name |-> name, ret |-> ret, io |-> io, text |-> text, requests |-> requests,
     before |-> [session |-> session, handle |-> handle, aes_key |-> aes_key]]

\* V380Client.__init__
ClientInit ==
    /\ sock = "none"
    /\ session = None
    /\ handle = None
    /\ aes_key = None
    /\ audio_supported = FALSE
    /\ battery_level = -1
    /\ op = OpRecord("init", "none", "ok", <<>>, 0)

\* client.py:68-78  connect(): the socket object is assigned before the
\* connection is attempted, so a failed connect leaves an unconnected socket.
Connect(ok) ==
    /\ sock' = IF ok THEN "connected" ELSE "unconnected"
    /\ op' = OpRecord("connect", IF ok THEN "True" ELSE "False", "ok", <<>>, 0)
    /\ UNCHANGED <<session, handle, aes_key, audio_supported, battery_level>>

\* client.py:80-89  disconnect()
Disconnect ==
    /\ sock' = "none"
    /\ session' = None
    /\ handle' = None
    /\ op' = OpRecord("disconnect", "none", "ok", <<>>, 0)
    /\ UNCHANGED <<aes_key, audio_supported, battery_level>>

\* client.py:189-196  set_handle(handle): the handle is stored before the key
\* is derived, and struct.pack raises on an integer that is not a u32.
SetHandle(h) ==
    /\ handle' = h
    /\ IF PacksAsU32(h)
       THEN /\ aes_key' = generate_aes_key(h)
            /\ op' = OpRecord("set_handle", "none", "ok", <<>>, 0)
       ELSE /\ aes_key' = aes_key
            /\ op' = OpRecord("set_handle", "raised", "ok", <<>>, 0)
    /\ UNCHANGED <<sock, session, audio_supported, battery_level>>

\* client.py:132-187  login(), with _send_json_rpc (198-233) inlined.
\*   conn_ok: whether connect() succeeds, when login has to call it
\*   io:      "ok", or the socket call that raises: "send" | "recv"
\*   text:    the bytes recv returns
Login(conn_ok, io, text) ==
    IF sock = "none" /\ ~conn_ok
    THEN \* client.py:134-136
         /\ sock' = "unconnected"
         /\ op' = OpRecord("login", "False", "ok", <<>>, 0)
         /\ UNCHANGED <<session, handle, aes_key, audio_supported, battery_level>>
    ELSE
    LET s1 == IF sock = "none" THEN "connected" ELSE sock
        sendRaises == io = "send" \/ s1 = "unconnected"
        recvRaises == io = "recv"
        response == ParseResponse(text)
    IN
    /\ sock' = s1
    /\ IF sendRaises \/ recvRaises
       THEN \* client.py:210-211 are outside the try: the error leaves login
            /\ op' = OpRecord("login", "raised", IF sendRaises THEN "send" ELSE "recv",
                              <<>>, 1)
            /\ UNCHANGED <<session, handle, aes_key, audio_supported, battery_level>>
       ELSE IF LoginAccepts(response)
       THEN /\ session' = response.session
            /\ handle' = response.handle
            /\ IF PacksAsU32(response.handle)
               THEN /\ aes_key' = generate_aes_key(response.handle)
                    /\ battery_level' =
                         IF response.has_pri THEN response.battery ELSE battery_level
                    /\ audio_supported' =
                         IF response.has_pri THEN response.audio = 1 ELSE audio_supported
                    /\ op' = OpRecord("login", "True", "ok", text, 1)
               ELSE \* client.py:166 raises struct.error
                    /\ op' = OpRecord("login", "raised", "ok", text, 1)
                    /\ UNCHANGED <<aes_key, audio_supported, battery_level>>
       ELSE /\ op' = OpRecord("login", "False", "ok", text, 1)
            /\ UNCHANGED <<session, handle, aes_key, audio_supported, battery_level>>

---------------------------------------------------------------------------
(* client.py: the stream-socket handshake                                  *)

\* The device id the client is constructed with (client.py:39): 12345678
DeviceId == <<24910, 188>>

\* client.py:59-61, 249  the ASCII bytes of "12345678.nvdvr.net"
Domain == <<49, 50, 51, 52, 53, 54, 55, 56, 46, 110, 118, 100, 118, 114, 46, 110, 101, 116>>

\* bytes.ljust(n, b'\x00')
Ljust(data, n) == data \o [i \in 1..(n - Len(data)) |-> 0]

\* client.py:249-253  the 256-byte opening packet
OpeningPacket(h, s) ==
    Ljust(LimbsBytes(<<301, 0>>) \o LimbsBytes(<<1002, 0>>) \o Ljust(Domain, 48)
          \o LimbBytes(0) \o LimbBytes(5050) \o LimbBytes(0)
          \o LimbsBytes(DeviceId) \o LimbsBytes(h) \o LimbsBytes(s), 256)

\* client.py:272-273  the init packet, zero-padded to 256 bytes
INIT_PACKET == Ljust(<<47, 1, 0, 0, 1, 48, 0, 0, 0, 0, 0, 0, 0, 0, 0, 0>>, 256)

\* client.py:277 and stream.py:32
KEEPALIVE_PACKET == <<1, 33, 0, 0, 0, 0, 0, 0, 0, 16, 0, 0, 0, 0, 0, 0>>

\* client.py:263  struct.unpack('<i', response[8:12])
Status(response) ==
    LET b3 == At(response, 11)
    IN  At(response, 8) + 256 * At(response, 9) + 65536 * At(response, 10)
        + 16777216 * (IF b3 >= 128 THEN b3 - 256 ELSE b3)

HandshakeAcceptsAnyStatus(response) ==
    Len(response) >= 12 /\ Slice(response, 0, 2) = <<145, 1>>

\* client.py:258-267  the two checks the relay's response has to pass
HandshakeAccepts(response) ==
    /\ ~(Len(response) < 12 \/ Slice(response, 0, 2) # <<145, 1>>)
    /\ Status(response) = 4

\* One packet sent on the stream socket
SentPacket(pkt, why, t) == [pkt |-> pkt, why |-> why, t |-> t]

\* What the relay may answer to the opening packet
GoodResponse == <<145, 1, 0, 0, 0, 0, 0, 0, 4, 0, 0, 0>>

StreamResponses ==
    { GoodResponse,
      Ljust(GoodResponse, 16),
      SubSeq(GoodResponse, 1, 11),
      <<>>,
      <<145, 2, 0, 0, 0, 0, 0, 0, 4, 0, 0, 0>>,
      <<144, 1, 0, 0, 0, 0, 0, 0, 4, 0, 0, 0>>,
      <<145, 1, 0, 0, 0, 0, 0, 0, 5, 0, 0, 0>>,
      <<145, 1, 0, 0, 0, 0, 0, 0, 4, 0, 0, 1>>,
      <<145, 1, 0, 0, 0, 0, 0, 0, 255, 255, 255, 255>>,
      <<145, 1, 0, 0, 4, 0, 0, 0, 0, 0, 0, 0>> }

\* The socket call of create_stream_socket that raises, if any
StreamIo == {"ok", "connect", "send_open", "recv", "send_init", "send_keepalive"}

NoCss == [called |-> FALSE, ret |-> "None", io |-> "ok", response |-> <<>>,
          logged_in |-> FALSE]

SockInit ==
    /\ stream_sock = "none"
    /\ s_out = <<>>
    /\ css = NoCss

\* client.py:235-285  create_stream_socket(): the socket it leaves behind,
\* what it sent on it, and what it returned
\*   io:       "ok", or the socket call that raises
\*   response: the bytes recv returns
create_stream_socket(io, response) ==
    IF ~is_connected
    THEN \* client.py:237-239: no socket is made
         [sock |-> "none", out |-> <<>>,
          css |-> [called |-> TRUE, ret |-> "None", io |-> "ok", response |-> <<>>,
                   logged_in |-> FALSE]]
    ELSE
    LET packs    == PacksAsU32(DeviceId) /\ PacksAsU32(handle) /\ PacksAsU32(session)
        opened   == io # "connect" /\ packs /\ io # "send_open"
        answered == opened /\ io # "recv"
        good     == answered /\ HandshakeAccepts(response)
        inited   == good /\ io # "send_init"
        done     == inited /\ io # "send_keepalive"
    IN
    [sock |-> IF done THEN "open" ELSE "closed",
     out  |-> (IF opened
               THEN <<SentPacket(OpeningPacket(handle, session), "open", now)>>
               ELSE <<>>)
              \o (IF inited THEN <<SentPacket(INIT_PACKET, "init", now)>> ELSE <<>>)
              \o (IF done THEN <<SentPacket(KEEPALIVE_PACKET, "handshake", now)>>
                  ELSE <<>>),
     css  |-> [called |-> TRUE, ret |-> IF done THEN "socket" ELSE "None",
               io |-> IF io # "connect" /\ ~packs THEN "pack" ELSE io,
               response |-> IF answered THEN response ELSE <<>>,
               logged_in |-> TRUE]]

\* A call of create_stream_socket by the user of the client
CreateStreamSocket(io, response) ==
    \E r \in {create_stream_socket(io, response)} :
        /\ stream_sock' = r.sock
        /\ s_out' = r.out
        /\ css' = r.css
        /\ op' = OpRecord("create_stream_socket", r.css.ret, r.css.io, <<>>, 0)
        /\ UNCHANGED <<sock, session, handle, aes_key, audio_supported, battery_level>>

---------------------------------------------------------------------------
(* stream.py: the packet demultiplexer and the frame reassembler           *)

\* stream.py:31
HEADER_SIZE == 12

\* The 16-byte per-frame metadata prefix (stream.py:272, 242)
META_SIZE == 16

\* self._current_frame_start = None
NoStart == -1

\* self._frame_chunks = {}   and   {'current': chunks}
NoChunks == [present |-> FALSE, current |-> <<>>]
Chunks(list) == [present |-> TRUE, current |-> list]

\* struct.unpack('<H', data[i:i+2])[0]
U16(data, i) == At(data, i) + 256 * At(data, i + 1)

\* A slip: the metadata prefix is left in the frame
StripMetaKept(payload) == payload

\* stream.py:272  payload[16:]
StripMeta(payload) == SliceFrom(payload, META_SIZE)

\* list.sort(key=lambda x: x[0]): stable, by insertion
RECURSIVE InsertChunk(_, _)
InsertChunk(sorted, c) ==
    IF sorted = <<>> THEN <<c>>
    ELSE IF c[1] < Head(sorted)[1] THEN <<c>> \o sorted
    ELSE <<Head(sorted)>> \o InsertChunk(Tail(sorted), c)

RECURSIVE SortChunks(_)
SortChunks(chunks) ==
    IF chunks = <<>> THEN <<>>
    ELSE InsertChunk(SortChunks(SubSeq(chunks, 1, Len(chunks) - 1)), chunks[Len(chunks)])

\* stream.py:266
SortedChunks(chunks) == SortChunks(chunks)

\* A slip: the prefix is stripped from every fragment
FrameDataStripAll(chunks) ==
    Concat([i \in 1..Len(chunks) |-> StripMeta(chunks[i][2])])

\* stream.py:269-274
FrameData(chunks) ==
    Concat([i \in 1..Len(chunks) |->
        IF chunks[i][1] = 0 THEN StripMeta(chunks[i][2]) ELSE chunks[i][2]])

\* A slip in the decryption rule: > instead of >=
NeedsDecryptStrict(is_iframe, frame_data) == is_iframe \/ Len(frame_data) > 64

\* stream.py:277  if is_iframe or len(frame_data) >= 64
NeedsDecrypt(is_iframe, frame_data) == is_iframe \/ Len(frame_data) >= 64

\* stream.py:264-280  _decrypt_frame: the bytes returned, with the frame
\* assembled before decryption and the branch taken
DecryptFrame(chunks, is_iframe, key) ==
    LET sorted     == SortedChunks(chunks)
        frame_data == FrameData(sorted)
        d          == NeedsDecrypt(is_iframe, frame_data)
    IN  [sorted |-> sorted, data |-> frame_data, decrypted |-> d,
         out |-> IF d THEN decrypt_64_80(frame_data, key) ELSE frame_data]

\* A slip: the newly decrypted frame is put in front of the output
ExtendFront(video_result, decrypted) == decrypted \o video_result

\* stream.py:198, 215, 258  video_result.extend(decrypted)
Extend(video_result, decrypted) == video_result \o decrypted

\* The reassembler emits the open frame: the three places that call
\* _decrypt_frame (stream.py:194-198, 211-215, 254-258)
Emit(st, key, site) ==
    LET r == DecryptFrame(st.chunks.current, st.is_iframe, key)
    IN  [st EXCEPT
           !.video = Extend(st.video, r.out),
           !.log = Append(st.log,
                     [first |-> st.open.ord, kind |-> st.open.kind,
                      total |-> st.total, is_iframe |-> st.is_iframe,
                      chunks |-> st.chunks.current, data |-> r.data,
                      decrypted |-> r.decrypted, out |-> r.out, site |-> site,
                      key |-> key, open_key |-> st.open.key])]

\* A slip in the restart: the fragment count of the old frame is kept
NewFrameKeepsTotal(st, key, pos, kind, total_frame, payload) ==
    LET flushed ==
          IF st.start # NoStart /\ st.chunks.present
          THEN LET e == IF Len(st.chunks.current) >= st.total
                        THEN Emit(st, key, "flush") ELSE st
               IN  [e EXCEPT !.chunks = NoChunks]
          ELSE st
    IN  [flushed EXCEPT
           !.start = pos,
           !.is_iframe = (kind = 40),
           !.chunks = Chunks(<< <<0, payload>> >>),
           !.open = [ord |-> st.npkts + 1, kind |-> kind, key |-> key]]

\* stream.py:190-205  a packet with fragment_index 0
NewFrame(st, key, pos, kind, total_frame, payload) ==
    LET flushed ==
          IF st.start # NoStart /\ st.chunks.present
          THEN LET e == IF Len(st.chunks.current) >= st.total
                        THEN Emit(st, key, "flush") ELSE st
               IN  [e EXCEPT !.chunks = NoChunks]
          ELSE st
    IN  [flushed EXCEPT
           !.start = pos,
           !.total = total_frame,
           !.is_iframe = (kind = 40),
           !.chunks = Chunks(<< <<0, payload>> >>),
           !.open = [ord |-> st.npkts + 1, kind |-> kind, key |-> key]]

\* stream.py:206-217  a packet with a non-zero fragment_index
AddFragment(st, key, cur_frame, payload) ==
    IF st.chunks.present
    THEN LET a == [st EXCEPT !.chunks =
                     Chunks(Append(st.chunks.current, <<cur_frame, payload>>))]
         IN  IF Len(a.chunks.current) >= a.total
             THEN [Emit(a, key, "complete") EXCEPT !.chunks = NoChunks, !.start = NoStart]
             ELSE a
    ELSE st

\* stream.py:175  the test that the cursor is at a video header
IsVideoHeader(data, pos) ==
    /\ At(data, pos) = 127
    /\ pos + 1 < Len(data)
    /\ At(data, pos + 1) \in {40, 41}

\* stream.py:222  the test that the cursor is at an audio header
IsAudioHeader(data, pos) ==
    /\ At(data, pos) = 127
    /\ pos + 1 < Len(data)
    /\ At(data, pos + 1) = 24

\* Nothing has been parsed yet
NoStep == [tag |-> "none"]

\* The reassembly state of the recorder (stream.py:38-42)
Reassembly(st) ==
    [chunks |-> st.chunks, start |-> st.start, total |-> st.total,
     is_iframe |-> st.is_iframe]

\* stream.py:176-219  the video branch of the loop body
VideoPacket(data, st, key) ==
    LET pos == st.pos IN
    IF pos + HEADER_SIZE > Len(data) THEN [st EXCEPT !.brk = TRUE]
    ELSE
    LET kind        == At(data, pos + 1)
        total_frame == U16(data, pos + 3)
        cur_frame   == U16(data, pos + 5)
        pkt_len     == U16(data, pos + 7)
        packet_end  == pos + HEADER_SIZE + pkt_len
    IN
    IF packet_end > Len(data) THEN [st EXCEPT !.brk = TRUE]
    ELSE
    LET payload == Slice(data, pos + 12, packet_end)
        s1 == IF cur_frame = 0
              THEN NewFrame(st, key, pos, kind, total_frame, payload)
              ELSE AddFragment(st, key, cur_frame, payload)
    IN  [s1 EXCEPT !.pos = packet_end, !.npkts = st.npkts + 1,
                   !.step = [tag |-> "video", kind |-> kind, total |-> total_frame,
                             idx |-> cur_frame, payload |-> payload,
                             before |-> Reassembly(st), after |-> Reassembly(s1),
                             emitted |-> SubSeq(s1.log, Len(st.log) + 1, Len(s1.log)),
                             out |-> SliceFrom(s1.video, Len(st.video))]]

\* A slip in the sanity gate: >= instead of > on the payload length
SpuriousAudioStrict(pkt_len, total_frame, packet_end, size) ==
    pkt_len >= 1000 \/ total_frame > 10 \/ packet_end > size

\* stream.py:232  the sanity check for false audio headers
SpuriousAudio(pkt_len, total_frame, packet_end, size) ==
    pkt_len > 1000 \/ total_frame > 10 \/ packet_end > size

\* stream.py:241  the test that the metadata prefix is skipped
StripsAudioMeta(cur_frame, audio_payload) == cur_frame = 0 /\ Len(audio_payload) > 16

\* stream.py:223-247  the audio branch of the loop body
AudioPacket(data, st, key, record_audio) ==
    LET pos == st.pos IN
    IF pos + HEADER_SIZE > Len(data) THEN [st EXCEPT !.brk = TRUE]
    ELSE
    LET total_frame == U16(data, pos + 3)
        cur_frame   == U16(data, pos + 5)
        pkt_len     == U16(data, pos + 7)
        packet_end  == pos + HEADER_SIZE + pkt_len
    IN
    LET seen(s1) == [s1 EXCEPT !.step =
                       [tag |-> "audio", total |-> total_frame, idx |-> cur_frame,
                        pkt_len |-> pkt_len, pos |-> pos, size |-> Len(data),
                        record_audio |-> record_audio, pos_after |-> s1.pos,
                        out |-> SliceFrom(s1.audio, Len(st.audio))]]
    IN
    IF SpuriousAudio(pkt_len, total_frame, packet_end, Len(data))
    THEN seen([st EXCEPT !.pos = pos + 1])
    ELSE IF ~record_audio THEN seen([st EXCEPT !.pos = packet_end])
    ELSE
    LET p0 == Slice(data, pos + 12, packet_end)
        audio_payload == IF StripsAudioMeta(cur_frame, p0) THEN SliceFrom(p0, 16) ELSE p0
    IN  seen([st EXCEPT !.audio = st.audio \o decrypt_audio(audio_payload, key),
                        !.pos = packet_end])

\* stream.py:248-249  pos += 1, repeated while the byte at the cursor is not
\* 0x7F: no branch of the loop is taken at such a byte, so the iterations
\* up to the next 0x7F (or the end of the data) are taken in one step
SkipTo(data, pos) ==
    LET tags == {q \in pos..(Len(data) - 1) : At(data, q) = 127}
    IN  IF tags = {} THEN Len(data)
        ELSE CHOOSE q \in tags : \A r \in tags : q <= r

\* stream.py:173-249  while pos < len(data)
RECURSIVE ParseLoop(_, _, _, _)
ParseLoop(data, st, key, record_audio) ==
    IF st.brk \/ ~(st.pos < Len(data)) THEN st
    ELSE ParseLoop(data,
           IF IsVideoHeader(data, st.pos) THEN VideoPacket(data, st, key)
           ELSE IF IsAudioHeader(data, st.pos) THEN AudioPacket(data, st, key, record_audio)
           ELSE [st EXCEPT !.pos = SkipTo(data, st.pos + 1)],
           key, record_audio)

\* A slip: the end-of-call check emits the frame and leaves it open
FinalFlushKeeps(st, key) ==
    IF st.start # NoStart /\ st.chunks.present /\ Len(st.chunks.current) >= st.total
    THEN Emit(st, key, "end")
    ELSE st

FinalFlushSkipped(st, key) == st

\* A slip: the reassembly state is dropped at the end of every call
FinalFlushForgets(st, key) ==
    IF st.start # NoStart /\ st.chunks.present /\ Len(st.chunks.current) >= st.total
    THEN [Emit(st, key, "end") EXCEPT !.chunks = NoChunks, !.start = NoStart]
    ELSE [st EXCEPT !.chunks = NoChunks, !.start = NoStart]

\* stream.py:251-260  Process any remaining complete frame
FinalFlush(st, key) ==
    IF st.start # NoStart /\ st.chunks.present /\ Len(st.chunks.current) >= st.total
    THEN [Emit(st, key, "end") EXCEPT !.chunks = NoChunks, !.start = NoStart]
    ELSE st

\* stream.py:167-262  _process_stream_data(data, record_audio), from the
\* recorder's state rs; the result carries (video, audio, remaining)
ProcessStreamData(data, rs, key, record_audio) ==
    LET st0 == [pos |-> 0, brk |-> FALSE, video |-> <<>>, audio |-> <<>>,
                chunks |-> rs.chunks, start |-> rs.start, total |-> rs.total,
                is_iframe |-> rs.is_iframe,
                log |-> rs.log, npkts |-> rs.npkts, open |-> rs.open, step |-> rs.step]
        st1 == FinalFlush(ParseLoop(data, st0, key, record_audio), key)
    IN  [st |-> st1, remaining |-> SliceFrom(data, st1.pos)]

---------------------------------------------------------------------------
(* rtsp_server.py: the RTP packetizer                                      *)

\* rtsp_server.py:29  max_payload
MAX_PAYLOAD == 1400

\* rtsp_server.py:24  self.payload_type
PAYLOAD_TYPE == 96

\* rtsp_server.py:35  the NAL type of a fragmentation unit
FU_TYPE == 49

\* rtsp_server.py:78  the default of ticks, the value send_frame passes
TICKS == 3600

\* struct.pack('>H', v)
PackBE16(v) == <<v \div 256, v % 256>>

\* struct.pack('>I', v) of a value held as two limbs
PackBE32(ls) == PackBE16(ls[2]) \o PackBE16(ls[1])

\* The packetizer's fields as one value
Rtp(seq, ts, ss) == [sequence |-> seq, timestamp |-> ts, ssrc |-> ss]

\* rtsp_server.py:64-76  the bytes _make_rtp_packet returns
make_rtp_packet(payload, marker, rtp) ==
    <<128, (IF marker THEN 128 ELSE 0) + PAYLOAD_TYPE>>
    \o PackBE16(rtp.sequence % 65536)
    \o PackBE32(rtp.timestamp)
    \o PackBE32(rtp.ssrc)
    \o payload

\* A slip in the wrap: the sequence runs on past 0xFFFF
NextSequenceNoWrap(seq) == seq + 1

\* rtsp_server.py:75  self.sequence = (self.sequence + 1) & 0xFFFF
NextSequence(seq) == (seq + 1) % 65536

\* rtsp_server.py:78-80  advance_timestamp(ticks)
advance_timestamp(ts, ticks) ==
    LET lo == ts[1] + ticks
    IN  <<lo % 65536, (ts[2] + (lo \div 65536)) % 65536>>

\* A slip in the FU header: the end bit is never set
FuHeaderNoEnd(first, last_fragment, fu_type) ==
    IF first THEN 128 + fu_type ELSE fu_type

\* rtsp_server.py:47-54  the FU header of one fragment (fu_type < 64)
FuHeader(first, last_fragment, fu_type) ==
    IF first THEN 128 + fu_type
    ELSE IF last_fragment THEN 64 + fu_type
    ELSE fu_type

\* rtsp_server.py:41-58  the fragmentation loop of packetize_nal
RECURSIVE FuLoop(_, _, _, _, _, _)
FuLoop(nal_data, is_last, offset, first, rtp, packets) ==
    IF ~(offset < Len(nal_data))
    THEN [packets |-> packets, sequence |-> rtp.sequence]
    ELSE LET nal_type      == (At(nal_data, 0) \div 2) % 64
             fu_header1    == (At(nal_data, 0) \div 128) * 128 + (At(nal_data, 0) % 2)
                              + FU_TYPE * 2
             fu_header2    == At(nal_data, 1)
             chunk_size    == Min(MAX_PAYLOAD - 3, Len(nal_data) - offset)
             last_fragment == (offset + chunk_size >= Len(nal_data))
             payload       == <<fu_header1, fu_header2,
                                FuHeader(first, last_fragment, nal_type)>>
                              \o Slice(nal_data, offset, offset + chunk_size)
         IN  FuLoop(nal_data, is_last, offset + chunk_size, FALSE,
                    [rtp EXCEPT !.sequence = NextSequence(@)],
                    Append(packets, make_rtp_packet(payload, is_last /\ last_fragment, rtp)))

\* rtsp_server.py:26-60  packetize_nal(nal_data, is_last) on a packetizer
\* in state rtp: the packets it returns and the sequence it leaves
packetize_nal(nal_data, is_last, rtp) ==
    IF Len(nal_data) <= MAX_PAYLOAD
    THEN [packets  |-> <<make_rtp_packet(nal_data, is_last, rtp)>>,
          sequence |-> NextSequence(rtp.sequence)]
    ELSE FuLoop(nal_data, is_last, 2, TRUE, rtp, <<>>)

---------------------------------------------------------------------------
(* rtsp_server.py: the RTSP server and its fan-out                         *)

\* rtsp_server.py:172, 175  the two Annex-B start codes at data[i:]
StartCode4(data, i) == Slice(data, i, i + 4) = <<0, 0, 0, 1>>
StartCode3(data, i) == Slice(data, i, i + 3) = <<0, 0, 1>>

\* rtsp_server.py:182-188  the end of the NAL that starts at j
RECURSIVE FindEnd(_, _)
FindEnd(data, j) ==
    IF ~(j < Len(data) - 3) THEN Len(data)
    ELSE IF StartCode4(data, j) \/ StartCode3(data, j) THEN j
    ELSE FindEnd(data, j + 1)

\* rtsp_server.py:171-192  the loop of _parse_nal_units
RECURSIVE ParseNalLoop(_, _, _)
ParseNalLoop(data, i, nal_units) ==
    IF ~(i < Len(data) - 4) THEN nal_units
    ELSE IF ~StartCode4(data, i) /\ ~StartCode3(data, i)
         THEN ParseNalLoop(data, i + 1, nal_units)
         ELSE LET start == IF StartCode4(data, i) THEN i + 4 ELSE i + 3
                  end   == FindEnd(data, start)
              IN  ParseNalLoop(data, end,
                      IF start < end THEN Append(nal_units, Slice(data, start, end))
                      ELSE nal_units)

\* rtsp_server.py:166-194  _parse_nal_units(data)
parse_nal_units(data) == ParseNalLoop(data, 0, <<>>)

\* The most entries of the fan-out list
MaxClients == 2

\* The most frames handed to send_frame in one run
MaxFrames == 2

\* The control connections made in one run, numbered in the order they are
\* accepted
Conns == {1, 2}

\* rtsp_server.py:97-99  no parameter sets: vps, sps and pps are None
NoParams == [vps |-> <<>>, sps |-> <<>>, pps |-> <<>>]

\* No DESCRIBE has been answered
NoSdp == [lines |-> <<>>, sprop |-> <<>>, frames |-> 0]

\* rtsp_server.py:128-134  set_stream_params(vps, sps, pps, width, height):
\* the parameter sets the server holds after it.  Nothing in main(), in
\* record() or in the server calls it.
set_stream_params(vps, sps, pps) == [vps |-> vps, sps |-> sps, pps |-> pps]

\* base64.b64encode(data).decode(), '' for None or b''
B64(data) == IF data = <<>> THEN <<>> ELSE <<"b64", data>>

\* rtsp_server.py:337-343  the sprop-vps, sprop-sps and sprop-pps attributes
\* of the fmtp line: written only if all three are non-empty
Sprop(p) ==
    IF B64(p.vps) # <<>> /\ B64(p.sps) # <<>> /\ B64(p.pps) # <<>>
    THEN <<B64(p.vps), B64(p.sps), B64(p.pps)>>
    ELSE <<>>

\* rtsp_server.py:333-355  _generate_sdp(): its lines (the o= line without
\* its time, the fmtp line without its sprop attributes) and those attributes
generate_sdp(p) ==
    [lines |-> <<"v=0", "o=- 1 IN IP4 127.0.0.1", "s=V380 Camera Stream", "t=0 0",
                 "m=video 0 RTP/AVP 96", "c=IN IP4 0.0.0.0",
                 "a=rtpmap:96 H265/90000", "a=fmtp:96 profile-id=1",
                 "a=control:streamid=0">>,
     sprop |-> Sprop(p)]

\* A control connection nobody has made yet: no handler thread, no rtp_sock
NoConn == [st |-> "none", setup |-> FALSE, closed |-> FALSE]

\* The threads of the server: one handler per control connection, the
\* thread that runs record() and calls send_frame, and main(), which calls
\* stop
Handler(c) == <<"handler", c>>
Recorder == <<"recorder", 0>>
MainThread == <<"main", 0>>
Threads == {Handler(c) : c \in Conns} \cup {Recorder, MainThread}

\* threading.Lock() (rtsp_server.py:91): nobody holds it
Free == <<"free", 0>>

\* No thread is at a with self.lock statement or inside one
LockIdle ==
    /\ lock = Free
    /\ th = [t \in Threads |-> "run"]

\* No RTSPServer has been constructed (v380_stream.py:100)
ServerIdle ==
    /\ LockIdle
    /\ sequence = 0
    /\ timestamp = <<0, 0>>
    /\ ssrc = <<0, 0>>
    /\ nal_in = <<>>
    /\ pkts_out = <<>>
    /\ p_done = FALSE
    /\ running = FALSE
    /\ clients = <<>>
    /\ conns = [c \in Conns |-> NoConn]
    /\ rx = [c \in Conns |-> <<>>]
    /\ nframes = 0
    /\ params = NoParams
    /\ sdp = NoSdp

\* rtsp_server.py:147-154  the body of send_frame's loop for one viewer:
\* every NAL is packetized, then its packets are sent one by one; the
\* fail-th sendto to this viewer raises (0: none does).  delivered are the
\* packets sent before that.
RECURSIVE ServeViewer(_, _, _, _, _)
ServeViewer(nal_units, j, rtp, fail, delivered) ==
    IF j > Len(nal_units)
    THEN [sequence |-> rtp.sequence, delivered |-> delivered, dead |-> FALSE]
    ELSE LET r    == packetize_nal(nal_units[j], j = Len(nal_units), rtp)
             pkts == [k \in 1..Len(r.packets) |-> [nal |-> j, pkt |-> r.packets[k]]]
         IN  IF fail > Len(delivered) /\ fail <= Len(delivered) + Len(pkts)
             THEN [sequence  |-> r.sequence,
                   delivered |-> delivered
                                 \o SubSeq(pkts, 1, fail - Len(delivered) - 1),
                   dead      |-> TRUE]
             ELSE ServeViewer(nal_units, j + 1, [rtp EXCEPT !.sequence = r.sequence],
                              fail, delivered \o pkts)

\* rtsp_server.py:146-154  send_frame's loop over self.clients, from entry i
\* on: out[k] are the packets sent to entry k, dead the entries that raised
RECURSIVE FanOut(_, _, _, _, _)
FanOut(n, i, nal_units, fails, acc) ==
    IF i > n THEN acc
    ELSE LET v == ServeViewer(nal_units, 1, acc.rtp, fails[i], <<>>)
         IN  FanOut(n, i + 1, nal_units, fails,
                    [rtp  |-> [acc.rtp EXCEPT !.sequence = v.sequence],
                     out  |-> Append(acc.out, v.delivered),
                     dead |-> IF v.dead THEN acc.dead \cup {i} ELSE acc.dead])

\* The list without the entries at the positions in dead (rtsp_server.py:156-162)
RECURSIVE WithoutEntries(_, _, _)
WithoutEntries(cl, dead, i) ==
    IF i > Len(cl) THEN <<>>
    ELSE (IF i \in dead THEN <<>> ELSE <<cl[i]>>) \o WithoutEntries(cl, dead, i + 1)

\* rtsp_server.py:300-301  the list without the entries of connection c
RECURSIVE WithoutConn(_, _)
WithoutConn(cl, c) ==
    IF cl = <<>> THEN <<>>
    ELSE (IF Head(cl) = c THEN <<>> ELSE <<Head(cl)>>) \o WithoutConn(Tail(cl), c)

\* What frame number f adds to what connection c has been sent: the packets
\* of every entry of c in the list, in list order, each with the entry it
\* was sent for and whether that entry was served without an error
RECURSIVE Received(_, _, _, _, _)
Received(cl, r, c, f, i) ==
    IF i > Len(cl) THEN <<>>
    ELSE (IF cl[i] = c
          THEN [k \in 1..Len(r.out[i]) |->
                  [frame |-> f, entry |-> i, ok |-> i \notin r.dead,
                   nal |-> r.out[i][k].nal, pkt |-> r.out[i][k].pkt]]
          ELSE <<>>)
         \o Received(cl, r, c, f, i + 1)

\* The decrypted frames the recorder's n-th read completes, as Annex-B: by
\* turns one I-frame of four NALs (VPS, SPS, PPS and an IDR slice: types 32,
\* 33, 34 and 19, after a 4-byte and three 3-byte start codes), and two
\* P-frames of one NAL each (type 1)
RtspRead(n) ==
    IF n % 2 = 1
    THEN << <<0, 0, 0, 1, 64, 1, 12, 0, 0, 1, 66, 1, 7, 9,
              0, 0, 1, 68, 1, 3, 0, 0, 1, 38, 1, 5>> >>
    ELSE << <<0, 0, 0, 1, 2, 1, 5, 6, 7>>, <<0, 0, 0, 1, 2, 1, 8, 9>> >>

\* stream.py:115-119  what record() passes to send_frame after its n-th
\* read: video, the frames the read completed one after another
RtspFrame(n) == Concat(RtspRead(n))

\* Which sendto raises for each entry of the list: none, or for one entry
\* the first or the second one to that viewer
Fails(n) ==
    { [i \in 1..n |-> 0] }
    \cup { [i \in 1..n |-> IF i = d THEN k ELSE 0] : d \in 1..n, k \in {1, 2} }

\* rtsp_server.py:198-209  _accept_loop accepts a connection and starts its
\* handler thread; connections are numbered in the order they are accepted
Accept(c) ==
    /\ running
    /\ conns[c].st = "none"
    /\ \A d \in Conns : d < c => conns[d].st # "none"
    /\ conns' = [conns EXCEPT ![c].st = "open"]
    /\ UNCHANGED <<rtpVars, pktVars, sdpVars, running, clients, rx, nframes>>

\* rtsp_server.py:255-275  SETUP: the handler makes its rtp_sock and keeps a
\* non-zero rtp_port.  (On a control socket that send_frame or stop has
\* closed no request is answered: recv or send raises and the handler ends.)
RtspSetup(c) ==
    /\ running
    /\ conns[c].st = "open"
    /\ ~conns[c].closed
    /\ conns' = [conns EXCEPT ![c].setup = TRUE]
    /\ UNCHANGED <<rtpVars, pktVars, sdpVars, running, clients, rx, nframes>>

\* rtsp_server.py:247-253  DESCRIBE: answered 200 with the SDP; frames is
\* the number of send_frame calls made before it
RtspDescribe(c) ==
    /\ running
    /\ conns[c].st = "open"
    /\ ~conns[c].closed
    /\ \E r \in {generate_sdp(params)} :
          sdp' = [lines |-> r.lines, sprop |-> r.sprop, frames |-> nframes]
    /\ UNCHANGED <<rtpVars, pktVars, rtspVars, params>>

\* A slip in PLAY: the viewer is enrolled whether or not SETUP came first
PlayEnrolsAlways(setup) == TRUE

\* rtsp_server.py:284  if rtp_sock and rtp_port: both are set by SETUP, and
\* by nothing else
PlayEnrols(setup) == setup

\* A slip in PLAY: the handler thread restarts the packetizer's clock
RtspPlayStamps(c) ==
    /\ running
    /\ conns[c].st = "open"
    /\ ~conns[c].closed
    /\ Len(clients) < MaxClients
    /\ clients' = IF PlayEnrols(conns[c].setup) THEN Append(clients, c) ELSE clients
    /\ timestamp' = <<0, 0>>
    /\ UNCHANGED <<sequence, ssrc, pktVars, sdpVars, running, conns, rx, nframes>>

\* rtsp_server.py:277-287  PLAY: answered 200; the viewer is appended to
\* self.clients if the handler holds an rtp_sock
RtspPlay(c) ==
    /\ running
    /\ conns[c].st = "open"
    /\ ~conns[c].closed
    /\ Len(clients) < MaxClients
    /\ clients' = IF PlayEnrols(conns[c].setup) THEN Append(clients, c) ELSE clients
    /\ UNCHANGED <<rtpVars, pktVars, sdpVars, running, conns, rx, nframes>>

\* rtsp_server.py:226-227, 289-308  the handler leaves its loop (TEARDOWN,
\* the peer closed, an error, or the server stopped) and its finally block
\* takes the connection's entries off the list and closes its sockets
HandlerEnds(c) ==
    /\ conns[c].st = "open"
    /\ conns' = [conns EXCEPT ![c].st = "ended", ![c].closed = TRUE]
    /\ clients' = WithoutConn(clients, c)
    /\ UNCHANGED <<rtpVars, pktVars, sdpVars, running, rx, nframes>>

\* rtsp_server.py:136-164  send_frame(frame_data), called by the recorder
\* (stream.py:119) with the video of one read
SendFrame(frame_data, fails) ==
    /\ running
    /\ nframes < MaxFrames
    /\ nframes' = nframes + 1
    /\ IF clients = <<>>
       THEN UNCHANGED <<rtpVars, clients, conns, rx>>
       ELSE \E r \in {FanOut(Len(clients), 1, parse_nal_units(frame_data), fails,
                             [rtp  |-> Rtp(sequence, timestamp, ssrc),
                              out  |-> <<>>,
                              dead |-> {}])} :
              /\ sequence' = r.rtp.sequence
              /\ timestamp' = advance_timestamp(timestamp, TICKS)
              /\ ssrc' = ssrc
              /\ rx' = [c \in Conns |->
                          rx[c] \o Received(clients, r, c, nframes + 1, 1)]
              /\ clients' = WithoutEntries(clients, r.dead, 1)
              /\ conns' = [c \in Conns |->
                             IF \E i \in r.dead : clients[i] = c
                             THEN [conns[c] EXCEPT !.closed = TRUE]
                             ELSE conns[c]]
    /\ UNCHANGED <<pktVars, sdpVars, running>>

\* rtsp_server.py:114-126  stop(), called by main() once record() has
\* returned (v380_stream.py:120-121)
RtspStop ==
    /\ running
    /\ running' = FALSE
    /\ conns' = [c \in Conns |->
                   IF \E i \in 1..Len(clients) : clients[i] = c
                   THEN [conns[c] EXCEPT !.closed = TRUE]
                   ELSE conns[c]]
    /\ clients' = <<>>
    /\ UNCHANGED <<rtpVars, pktVars, sdpVars, rx, nframes>>

\* What the server's actions leave alone
ServerOnly ==
    UNCHANGED <<clientVars, recVars, relayVars, obsVars, cryptoVars, sockVars, runVars,
                lockVars>>

---------------------------------------------------------------------------
(* The camera and the relay socket                                         *)

\* The most packets the camera sends in one run
MaxPackets == 3

\* The longest input given to decrypt_64_80 on its own
MaxDataLen == 170

Pattern(n, seed) == [i \in 1..n |-> (seed + 3 * i) % 101]

\* A metadata prefix
META == [i \in 1..META_SIZE |-> 101 + i]

Packet(kind, total, idx, payload) ==
    [kind |-> kind, total |-> total, idx |-> idx, payload |-> payload]

\* The packets the camera may send: fragments of a two-fragment P-frame, a
\* short single-fragment I-frame, a single-fragment P-frame of exactly 64
\* bytes after the prefix, and an audio packet.
Packets ==
    { Packet(41, 2, 0, META \o Pattern(2, 1)),
      Packet(41, 2, 1, Pattern(20, 50)),
      Packet(40, 1, 0, META \o Pattern(2, 20)),
      Packet(41, 1, 0, META \o Pattern(64, 5)),
      Packet(24, 1, 0, META \o Pattern(17, 30)) }

\* The 12-byte header and the payload, as the camera frames them
Encode(p) ==
    <<127, p.kind, 0>> \o LimbBytes(p.total) \o LimbBytes(p.idx)
    \o LimbBytes(Len(p.payload)) \o <<0, 0, 0>> \o p.payload

IsVideo(p) == p.kind \in {40, 41}

\* Where a recv may end inside a packet: after the tag byte, after the kind
\* byte, one short of the header, at the header's end, one byte into the
\* payload and one short of the packet
CutPoints(seg) == {1, 2, 11, 12, 13, Len(seg) - 1} \cap (1..(Len(seg) - 1))

NoCut == [pkt |-> <<>>, at |-> 0]

\* StreamRecorder.__init__ (stream.py:38-42) and record()'s buffer and files
RecorderInit ==
    /\ frame_chunks = NoChunks
    /\ current_frame_start = NoStart
    /\ current_total = 0
    /\ current_is_iframe = FALSE
    /\ buffer = <<>>
    /\ video_f = <<>>
    /\ audio_f = <<>>

\* The recorder inside its read loop
RecInit == RecorderInit /\ pc = "loop"

\* The recorder before record() is called
RecIdle == RecorderInit /\ pc = "idle"

RelayInit ==
    /\ wire = <<>>
    /\ sent = <<>>
    /\ cut = NoCut
    /\ split = FALSE

ObsInit ==
    /\ log = <<>>
    /\ npkts = 0
    /\ open_first = [ord |-> 0, kind |-> 0, key |-> None]
    /\ step = NoStep

CryptoIdle ==
    /\ c_in = <<>>
    /\ c_out = <<>>
    /\ c_done = FALSE

\* The client after a login that returned True (response: session 111,
\* handle 222, battery 80, audio 1)
LoggedIn ==
    /\ sock = "connected"
    /\ session = S111
    /\ handle = H222
    /\ aes_key = generate_aes_key(H222)
    /\ audio_supported = TRUE
    /\ battery_level = 80
    /\ op = [name |-> "login", ret |-> "True", io |-> "ok", text |-> <<>>,
             requests |-> 1,
             before |-> [session |-> None, handle |-> None, aes_key |-> None]]

\* v380_stream.py:48-66  the options main() reads, at their defaults
DefaultArgs == [handle |-> None, duration |-> 60, debug |-> FALSE, no_audio |-> FALSE]

NoFiles == [video |-> "none", audio |-> "none", raw |-> "none"]

NoEvent == [kind |-> "none", before |-> <<>>]

NoMainLog == [connect |-> "none", login |-> "none", set_handle |-> "none"]

\* main() has not been entered
RunIdle ==
    /\ m_pc = "idle"
    /\ exit_code = -1
    /\ args = DefaultArgs
    /\ now = 0
    /\ start_time = 0
    /\ stop_flag = FALSE
    /\ sigint = "previous"
    /\ files = NoFiles
    /\ rec_ret = "none"
    /\ ev = NoEvent
    /\ m_log = NoMainLog

\* stream.py:67  record_audio = client.audio_supported and enable_audio,
\* with enable_audio = not args.no_audio (v380_stream.py:112)
record_audio == audio_supported /\ ~args.no_audio

\* stream.py:94-96  the files record() opens
OpenFiles ==
    [video |-> "open",
     audio |-> IF record_audio THEN "open" ELSE "none",
     raw   |-> IF args.debug THEN "open" ELSE "none"]

\* record() has passed stream.py:58-96 and is inside its read loop, in a
\* second in which no periodic keepalive is due
Recording ==
    /\ m_pc = "record"
    /\ exit_code = -1
    /\ args = DefaultArgs
    /\ now = 1
    /\ start_time = 1
    /\ stop_flag = FALSE
    /\ sigint = "recorder"
    /\ files = OpenFiles
    /\ rec_ret = "none"
    /\ ev = NoEvent
    /\ m_log = [connect |-> "True", login |-> "True", set_handle |-> "none"]
    /\ \E r \in {create_stream_socket("ok", GoodResponse)} :
          /\ stream_sock = r.sock
          /\ s_out = r.out
          /\ css = r.css

\* file.close() on every file that was opened
CloseAll(f) == [k \in DOMAIN f |-> IF f[k] = "open" THEN "closed" ELSE f[k]]

CleanupSkippedOnError(f, raised) ==
    IF raised
    THEN [files |-> f, sigint |-> "recorder", stream_sock |-> "open"]
    ELSE [files |-> CloseAll(f), sigint |-> "previous", stream_sock |-> "closed"]

\* stream.py:141-157  the two finally blocks of record(): they run whether
\* the loop ended normally or an exception is on its way out
Cleanup(f, raised) ==
    [files |-> CloseAll(f), sigint |-> "previous", stream_sock |-> "closed"]

\* stream.py:141-165  record() leaves its loop and returns ret
Finish(ret) ==
    /\ \E r \in {Cleanup(files, ret = "None")} :
          /\ files' = r.files
          /\ sigint' = r.sigint
          /\ stream_sock' = r.stream_sock
    /\ rec_ret' = ret
    /\ pc' = "returned"

\* The variables a loop iteration leaves alone when record() goes on
Continue ==
    /\ pc' = "check"
    /\ UNCHANGED <<files, sigint, stream_sock, rec_ret>>

\* The camera sends one more packet
CameraSend(p) ==
    /\ pc \in {"check", "loop"}
    /\ Len(sent) < MaxPackets
    /\ sent' = Append(sent, p)
    /\ wire' = Append(wire, Encode(p))
    /\ UNCHANGED <<cut, split>>
    /\ UNCHANGED <<clientVars, recVars, obsVars, cryptoVars, sockVars, runVars, serverVars>>

\* stream.py:101-123  one iteration of the read loop in which recv returns
\* data: the first m segments in flight and, when c > 0, the first c bytes
\* of the next one
RecvData(m, c) ==
    /\ pc = "loop"
    /\ m + c > 0
    /\ cut.at > 0 => m >= 1
    /\ LET data == Concat(SubSeq(wire, 1, m))
                   \o (IF c > 0 THEN SubSeq(wire[m + 1], 1, c) ELSE <<>>)
           rs == [chunks |-> frame_chunks, start |-> current_frame_start,
                  total |-> current_total, is_iframe |-> current_is_iframe,
                  log |-> log, npkts |-> npkts, open |-> open_first, step |-> step]
       IN  \E r \in {ProcessStreamData(buffer \o data, rs, aes_key, record_audio)} :
           /\ buffer' = r.remaining
           /\ frame_chunks' = r.st.chunks
           /\ current_frame_start' = r.st.start
           /\ current_total' = r.st.total
           /\ current_is_iframe' = r.st.is_iframe
           /\ video_f' = video_f \o r.st.video
           /\ audio_f' = IF record_audio THEN audio_f \o r.st.audio ELSE audio_f
           /\ log' = r.st.log
           /\ npkts' = r.st.npkts
           /\ open_first' = r.st.open
           /\ step' = r.st.step
    /\ wire' = IF c > 0
               THEN <<SubSeq(wire[m + 1], c + 1, Len(wire[m + 1]))>>
                    \o SubSeq(wire, m + 2, Len(wire))
               ELSE SubSeq(wire, m + 1, Len(wire))
    /\ cut' = IF c > 0 THEN [pkt |-> wire[m + 1], at |-> c] ELSE NoCut
    /\ split' = (split \/ c > 0)
    /\ UNCHANGED <<sent, clientVars, cryptoVars, serverVars>>

\* An iteration that touches neither the buffer nor the reassembler
RecorderUntouched ==
    /\ UNCHANGED <<frame_chunks, current_frame_start, current_total, current_is_iframe,
                   buffer, video_f, audio_f>>
    /\ UNCHANGED <<clientVars, relayVars, obsVars, cryptoVars, serverVars>>

\* stream.py:101-103  recv returns b'': the relay closed the stream, the
\* loop is left by break and record() returns the path
StreamClosed ==
    /\ pc = "loop"
    /\ wire = <<>>
    /\ RecorderUntouched
    /\ Finish("path")
    /\ ev' = [kind |-> "eof", before |-> <<>>]
    /\ UNCHANGED <<s_out, css, m_pc, exit_code, args, now, start_time, stop_flag, m_log>>

\* stream.py:125-127  the iteration ends within the second it began in,
\* where no keepalive is due, and the loop goes on
Healthy ==
    /\ pc' = pc
    /\ UNCHANGED <<sockVars, runVars>>

Init ==
    LoggedIn /\ RecInit /\ RelayInit /\ ObsInit /\ CryptoIdle /\ Recording /\ ServerIdle

Next ==
    \/ \E p \in Packets : CameraSend(p)
    \/ \E m \in 0..Len(wire) :
          \E c \in {0} \cup (IF m < Len(wire) THEN CutPoints(wire[m + 1]) ELSE {}) :
             RecvData(m, c) /\ Healthy
    \/ StreamClosed

Spec == Init /\ [][Next]_vars

---------------------------------------------------------------------------
(* The control channel on its own                                          *)

InitLogin ==
    /\ ClientInit /\ RecIdle /\ RelayInit /\ ObsInit /\ CryptoIdle /\ SockInit /\ RunIdle
    /\ ServerIdle

\* What a client call leaves alone
ClientOnly == UNCHANGED <<recVars, relayVars, obsVars, cryptoVars, runVars, serverVars>>

NextLogin ==
    \/ \E ok \in BOOLEAN : Connect(ok) /\ ClientOnly /\ UNCHANGED sockVars
    \/ \E ok \in BOOLEAN, io \in {"ok", "send", "recv"}, text \in Responses :
          Login(ok, io, text) /\ ClientOnly /\ UNCHANGED sockVars
    \/ \E h \in {H222, HMaxU32, HTooWide} :
          SetHandle(h) /\ ClientOnly /\ UNCHANGED sockVars
    \/ Disconnect /\ ClientOnly /\ UNCHANGED sockVars

SpecLogin == InitLogin /\ [][NextLogin]_vars

---------------------------------------------------------------------------
(* The stream-socket handshake on its own                                  *)

\* The login responses that leave the client with a session and a handle:
\* handle 222, handle 2^32 - 1, and a handle that does not pack as a u32
StreamLogins ==
    { Dump(v) : v \in { JsonValue(TRUE, S111, H222,     TRUE,  80, 1, "absent", 0),
                        JsonValue(TRUE, S7,   HMaxU32,  FALSE, -1, 0, "absent", 0),
                        JsonValue(TRUE, S111, HTooWide, FALSE, -1, 0, "absent", 0) } }

NextStream ==
    \/ \E text \in StreamLogins : Login(TRUE, "ok", text) /\ ClientOnly /\ UNCHANGED sockVars
    \/ \E h \in {H222, HTooWide} : SetHandle(h) /\ ClientOnly /\ UNCHANGED sockVars
    \/ Disconnect /\ ClientOnly /\ UNCHANGED sockVars
    \/ \E io \in StreamIo, response \in StreamResponses :
          CreateStreamSocket(io, response) /\ ClientOnly

SpecStream == InitLogin /\ [][NextStream]_vars

---------------------------------------------------------------------------
(* decrypt_64_80 on its own                                                *)

InitCrypto ==
    /\ ClientInit /\ RecIdle /\ RelayInit /\ ObsInit /\ SockInit /\ RunIdle /\ ServerIdle
    /\ c_in \in { Pattern(n, seed) : n \in 0..MaxDataLen, seed \in {3, 77} }
    /\ c_out = <<>>
    /\ c_done = FALSE

\* The client derives its key from a handle, then a frame is decrypted
CryptoSetHandle(h) ==
    /\ ~c_done
    /\ aes_key = None
    /\ SetHandle(h)
    /\ ClientOnly /\ UNCHANGED sockVars

CryptoDecrypt ==
    /\ ~c_done
    /\ aes_key # None
    /\ c_out' = decrypt_64_80(c_in, aes_key)
    /\ c_done' = TRUE
    /\ c_in' = c_in
    /\ UNCHANGED <<clientVars, recVars, relayVars, obsVars, sockVars, runVars, serverVars>>

NextCrypto ==
    \/ \E h \in {H222, HMaxU32} : CryptoSetHandle(h)
    \/ CryptoDecrypt

SpecCrypto == InitCrypto /\ [][NextCrypto]_vars

---------------------------------------------------------------------------
(* packetize_nal on its own                                                *)

\* The most fragments of the longest NAL, less one
MaxFragments == 3

\* A NAL of n bytes whose first byte is b0
Nal(b0, n) == [i \in 1..n |-> IF i = 1 THEN b0 ELSE (b0 + 7 * i) % 256]

\* Lengths around max_payload and around whole numbers of fragments
NalLengths ==
    {1, 2, 3, MAX_PAYLOAD - 1, MAX_PAYLOAD, MAX_PAYLOAD + 1, MAX_PAYLOAD + 2}
    \cup { 2 + k * (MAX_PAYLOAD - 3) + d : k \in 2..MaxFragments, d \in {0, 1} }

\* First bytes: VPS (type 32), IDR (type 19), TRAIL_R (type 1), and every
\* bit set
NalFirstBytes == {64, 38, 2, 255}

\* A packetizer as RTPPacketizer() leaves it (rtsp_server.py:20-24), with
\* a few of the values the random draws can give
PacketizerInit ==
    /\ sequence \in {0, 65534, 65535}
    /\ timestamp = <<64000, 65535>>
    /\ ssrc = <<4660, 22136>>

InitRtp ==
    /\ ClientInit /\ RecIdle /\ RelayInit /\ ObsInit /\ CryptoIdle /\ SockInit /\ RunIdle
    /\ PacketizerInit
    /\ LockIdle
    /\ nal_in \in { Nal(b0, n) : b0 \in NalFirstBytes, n \in NalLengths }
    /\ pkts_out = <<>>
    /\ p_done = FALSE
    /\ running = FALSE
    /\ clients = <<>>
    /\ conns = [c \in Conns |-> NoConn]
    /\ rx = [c \in Conns |-> <<>>]
    /\ nframes = 0
    /\ params = NoParams
    /\ sdp = NoSdp

\* packetize_nal(nal_in, is_last) is called
Packetize(is_last) ==
    /\ ~p_done
    /\ \E r \in {packetize_nal(nal_in, is_last, Rtp(sequence, timestamp, ssrc))} :
          /\ pkts_out' = r.packets
          /\ sequence' = r.sequence
    /\ p_done' = TRUE
    /\ UNCHANGED <<timestamp, ssrc, nal_in, rtspVars, sdpVars>>
    /\ ServerOnly

NextRtp == \E is_last \in BOOLEAN : Packetize(is_last)

SpecRtp == InitRtp /\ [][NextRtp]_vars

---------------------------------------------------------------------------
(* The RTSP server on its own                                              *)

\* main() has constructed and started the server (v380_stream.py:104-105):
\* nobody has connected and no frame has been sent
InitRtsp ==
    /\ ClientInit /\ RecIdle /\ RelayInit /\ ObsInit /\ CryptoIdle /\ SockInit /\ RunIdle
    /\ LockIdle
    /\ sequence = 65534
    /\ timestamp = <<64000, 65535>>
    /\ ssrc = <<4660, 22136>>
    /\ nal_in = <<>>
    /\ pkts_out = <<>>
    /\ p_done = FALSE
    /\ running = TRUE
    /\ clients = <<>>
    /\ conns = [c \in Conns |-> NoConn]
    /\ rx = [c \in Conns |-> <<>>]
    /\ nframes = 0
    /\ params = NoParams
    /\ sdp = NoSdp

NextRtsp ==
    \/ \E c \in Conns : Accept(c) /\ ServerOnly
    \/ \E c \in Conns : RtspDescribe(c) /\ ServerOnly
    \/ \E c \in Conns : RtspSetup(c) /\ ServerOnly
    \/ \E c \in Conns : RtspPlay(c) /\ ServerOnly
    \/ \E c \in Conns : HandlerEnds(c) /\ ServerOnly
    \/ \E fails \in Fails(Len(clients)) :
          SendFrame(RtspFrame(nframes + 1), fails) /\ ServerOnly
    \/ RtspStop /\ ServerOnly

SpecRtsp == InitRtsp /\ [][NextRtsp]_vars

---------------------------------------------------------------------------
(* The RTSP server's threads, one statement at a time around the lock      *)

\* The calls of send_frame the recorder thread makes while the threads are
\* followed statement by statement
MaxLockFrames == 1

\* A slip: with self.lock does not wait
LockIgnored(l) == TRUE

\* threading.Lock.acquire: the caller goes on only when nobody holds the lock
LockFree(l) == l = Free

\* Where a thread is once it has entered the with self.lock block it was
\* waiting at: before the append of PLAY (rtsp_server.py:285-286), before
\* the filter of the finally block (299-301), before send_frame's loop and
\* pops (143-162), before stop's loop and clear (119-126)
Inside ==
    [play_lock |-> "appending", fin_lock |-> "filtering",
     send_lock |-> "iterating", stop_lock |-> "clearing"]

\* The positions in which a thread reads or changes self.clients inside a
\* with block
Touching == {"appending", "filtering", "iterating", "clearing"}

\* with self.lock: thread t enters the block
Acquire(t) ==
    /\ th[t] \in DOMAIN Inside
    /\ LockFree(lock)
    /\ lock' = t
    /\ th' = [th EXCEPT ![t] = Inside[th[t]]]
    /\ UNCHANGED <<rtpVars, pktVars, rtspVars, sdpVars>>

\* The end of a with block: the lock is released and thread t goes on
Release(t) ==
    /\ lock' = Free
    /\ th' = [th EXCEPT ![t] = "run"]

\* rtsp_server.py:277-285  PLAY is answered; a handler that holds an
\* rtp_sock goes to the with statement
PlayRequest(c) ==
    /\ running
    /\ conns[c].st = "open"
    /\ ~conns[c].closed
    /\ th[Handler(c)] = "run"
    /\ Len(clients) < MaxClients
    /\ PlayEnrols(conns[c].setup)
    /\ th' = [th EXCEPT ![Handler(c)] = "play_lock"]
    /\ UNCHANGED <<rtpVars, pktVars, rtspVars, sdpVars, lock>>

\* rtsp_server.py:286  the append, and the end of the block
PlayAppend(c) ==
    /\ th[Handler(c)] = "appending"
    /\ clients' = Append(clients, c)
    /\ Release(Handler(c))
    /\ UNCHANGED <<rtpVars, pktVars, sdpVars, running, conns, rx, nframes>>

\* rtsp_server.py:222-227, 289-299  the handler leaves its loop (TEARDOWN,
\* the peer closed, an error, or self.running is False) and reaches the with
\* statement of its finally block
HandlerLeaves(c) ==
    /\ conns[c].st = "open"
    /\ th[Handler(c)] = "run"
    /\ th' = [th EXCEPT ![Handler(c)] = "fin_lock"]
    /\ UNCHANGED <<rtpVars, pktVars, rtspVars, sdpVars, lock>>

\* rtsp_server.py:300-307  the list is replaced by the one without the
\* connection's entries, the block ends and the sockets are closed
HandlerFilter(c) ==
    /\ th[Handler(c)] = "filtering"
    /\ clients' = WithoutConn(clients, c)
    /\ conns' = [conns EXCEPT ![c].st = "ended", ![c].closed = TRUE]
    /\ Release(Handler(c))
    /\ UNCHANGED <<rtpVars, pktVars, sdpVars, running, rx, nframes>>

\* rtsp_server.py:138-143  send_frame is entered: it returns at once on an
\* empty list (read without the lock), else parses the frame and goes to the
\* with statement
SendCheck ==
    /\ running
    /\ nframes < MaxLockFrames
    /\ th[Recorder] = "run"
    /\ IF clients = <<>>
       THEN nframes' = nframes + 1 /\ th' = th
       ELSE nframes' = nframes /\ th' = [th EXCEPT ![Recorder] = "send_lock"]
    /\ UNCHANGED <<rtpVars, pktVars, sdpVars, running, clients, conns, rx, lock>>

\* rtsp_server.py:144-162  the loop over the viewers and the pops of the
\* dead ones, on the list as it is now, and the end of the block
SendIterate(frame_data, fails) ==
    /\ th[Recorder] = "iterating"
    /\ nframes' = nframes + 1
    /\ \E r \in {FanOut(Len(clients), 1, parse_nal_units(frame_data), fails,
                        [rtp  |-> Rtp(sequence, timestamp, ssrc),
                         out  |-> <<>>,
                         dead |-> {}])} :
          /\ sequence' = r.rtp.sequence
          /\ rx' = [c \in Conns |-> rx[c] \o Received(clients, r, c, nframes + 1, 1)]
          /\ clients' = WithoutEntries(clients, r.dead, 1)
          /\ conns' = [c \in Conns |->
                         IF \E i \in r.dead : clients[i] = c
                         THEN [conns[c] EXCEPT !.closed = TRUE]
                         ELSE conns[c]]
    /\ lock' = Free
    /\ th' = [th EXCEPT ![Recorder] = "stamp"]
    /\ UNCHANGED <<timestamp, ssrc, pktVars, sdpVars, running>>

\* rtsp_server.py:164  advance_timestamp(3600), after the block
SendStamp ==
    /\ th[Recorder] = "stamp"
    /\ timestamp' = advance_timestamp(timestamp, TICKS)
    /\ th' = [th EXCEPT ![Recorder] = "run"]
    /\ UNCHANGED <<sequence, ssrc, pktVars, rtspVars, sdpVars, lock>>

\* rtsp_server.py:116-119  stop() clears self.running, closes the listening
\* socket and goes to the with statement
StopBegin ==
    /\ running
    /\ th[MainThread] = "run"
    /\ running' = FALSE
    /\ th' = [th EXCEPT ![MainThread] = "stop_lock"]
    /\ UNCHANGED <<rtpVars, pktVars, sdpVars, clients, conns, rx, nframes, lock>>

\* rtsp_server.py:120-126  the sockets of every entry are closed and the
\* list is cleared
StopClear ==
    /\ th[MainThread] = "clearing"
    /\ conns' = [c \in Conns |->
                   IF \E i \in 1..Len(clients) : clients[i] = c
                   THEN [conns[c] EXCEPT !.closed = TRUE]
                   ELSE conns[c]]
    /\ clients' = <<>>
    /\ lock' = Free
    /\ th' = [th EXCEPT ![MainThread] = "stopped"]
    /\ UNCHANGED <<rtpVars, pktVars, sdpVars, running, rx, nframes>>

\* What a step of a server thread leaves alone
ThreadFrame ==
    UNCHANGED <<clientVars, recVars, relayVars, obsVars, cryptoVars, sockVars, runVars>>

\* The requests that do not touch the list are answered by a handler that is
\* in its loop
NextLock ==
    \/ \E c \in Conns : Accept(c) /\ ServerOnly
    \/ \E c \in Conns : th[Handler(c)] = "run" /\ RtspSetup(c) /\ ServerOnly
    \/ \E c \in Conns : PlayRequest(c) /\ ThreadFrame
    \/ \E c \in Conns : PlayAppend(c) /\ ThreadFrame
    \/ \E c \in Conns : HandlerLeaves(c) /\ ThreadFrame
    \/ \E c \in Conns : HandlerFilter(c) /\ ThreadFrame
    \/ \E t \in Threads : Acquire(t) /\ ThreadFrame
    \/ SendCheck /\ ThreadFrame
    \/ \E fails \in Fails(Len(clients)) :
          SendIterate(RtspFrame(nframes + 1), fails) /\ ThreadFrame
    \/ SendStamp /\ ThreadFrame
    \/ StopBegin /\ ThreadFrame
    \/ StopClear /\ ThreadFrame

SpecLock == InitRtsp /\ [][NextLock]_vars

---------------------------------------------------------------------------
(* main() and record(): one run of the program                             *)

\* client.py:242  the timeout of the stream socket, in seconds
STREAM_TIMEOUT == 30

\* The packets the camera sends in a run, and where a recv may end inside one
MaxRunPackets == 1

RunPackets ==
    { Packet(41, 2, 0, META \o Pattern(2, 1)),
      Packet(40, 1, 0, META \o Pattern(2, 20)),
      Packet(24, 1, 0, META \o Pattern(17, 30)) }

RunCuts(seg) == CutPoints(seg) \cap {13}

\* What the relay answers to the opening packet in a run
RunResponses ==
    { GoodResponse,
      SubSeq(GoodResponse, 1, 11),
      <<145, 1, 0, 0, 0, 0, 0, 0, 5, 0, 0, 0>> }

\* int(time.time()) when the program starts
StartTimes == {10}

\* The seconds a recv that returns data may have blocked for
Delays == {0, 4}

\* The command lines: a short recording, and a longer one in debug mode
\* without audio and with a handle override
ArgSets ==
    { [handle |-> None,    duration |-> 3,  debug |-> FALSE, no_audio |-> FALSE],
      [handle |-> HMaxU32, duration |-> 35, debug |-> TRUE,  no_audio |-> TRUE],
      [handle |-> HTooWide, duration |-> 3, debug |-> FALSE, no_audio |-> FALSE] }

\* v380_stream.py:70-81  main() has parsed its arguments and made the client
InitRun ==
    /\ ClientInit /\ RecIdle /\ RelayInit /\ ObsInit /\ CryptoIdle /\ SockInit
    /\ ServerIdle
    /\ m_pc = "connect"
    /\ exit_code = -1
    /\ args \in ArgSets
    /\ now \in StartTimes
    /\ start_time = 0
    /\ stop_flag = FALSE
    /\ sigint = "previous"
    /\ files = NoFiles
    /\ rec_ret = "none"
    /\ ev = NoEvent
    /\ m_log = NoMainLog

\* What a step of main() outside record() leaves alone
MainFrame ==
    /\ UNCHANGED <<recVars, relayVars, obsVars, cryptoVars, sockVars, serverVars>>
    /\ UNCHANGED <<args, now, start_time, stop_flag, sigint, files, rec_ret, ev>>

\* v380_stream.py: a return statement inside the try, or an exception on its
\* way out of main(): the finally block is next
Return(code) ==
    /\ m_pc' = "finally"
    /\ exit_code' = code

\* v380_stream.py:89-90
MainConnect(ok) ==
    /\ m_pc = "connect"
    /\ Connect(ok)
    /\ m_log' = [m_log EXCEPT !.connect = op'.ret]
    /\ IF ok THEN m_pc' = "login" /\ exit_code' = exit_code ELSE Return(1)
    /\ MainFrame

\* v380_stream.py:92-93  an exception raised by login leaves main() through
\* the finally block and ends the interpreter with status 1
MainLogin(io, text) ==
    /\ m_pc = "login"
    /\ Login(TRUE, io, text)
    /\ m_log' = [m_log EXCEPT !.login = op'.ret]
    /\ IF op'.ret = "True" THEN m_pc' = "set_handle" /\ exit_code' = exit_code
       ELSE Return(1)
    /\ MainFrame

\* v380_stream.py:96-97
MainSetHandle ==
    /\ m_pc = "set_handle"
    /\ IF args.handle # None
       THEN /\ SetHandle(args.handle)
            /\ m_log' = [m_log EXCEPT !.set_handle = op'.ret]
            /\ IF op'.ret = "raised" THEN Return(1)
               ELSE m_pc' = "record" /\ exit_code' = exit_code
       ELSE /\ UNCHANGED <<clientVars, m_log, exit_code>>
            /\ m_pc' = "record"
    /\ MainFrame

\* stream.py:58-96  record() up to its read loop
\*   io, response: as for create_stream_socket
\*   fs:           whether open() succeeds
RecordStart(io, response, fs) ==
    /\ m_pc = "record"
    /\ pc = "idle"
    /\ \E r \in {create_stream_socket(io, response)} :
          /\ css' = r.css
          /\ op' = OpRecord("create_stream_socket", r.css.ret, r.css.io, <<>>, 0)
          /\ IF r.css.ret = "None"
             THEN \* stream.py:59-60
                  /\ stream_sock' = r.sock
                  /\ s_out' = r.out
                  /\ rec_ret' = "None"
                  /\ pc' = "returned"
                  /\ UNCHANGED <<start_time, stop_flag, sigint, files>>
             ELSE /\ s_out' = r.out
                  /\ stop_flag' = FALSE
                  /\ start_time' = now
                  /\ IF fs
                     THEN /\ files' = OpenFiles
                          /\ sigint' = "recorder"
                          /\ stream_sock' = r.sock
                          /\ rec_ret' = rec_ret
                          /\ pc' = "check"
                     ELSE \* stream.py:94 raises: 148-157
                          /\ \E k \in {Cleanup(NoFiles, TRUE)} :
                                /\ files' = k.files
                                /\ sigint' = k.sigint
                                /\ stream_sock' = k.stream_sock
                          /\ rec_ret' = "None"
                          /\ pc' = "returned"
    /\ UNCHANGED <<sock, session, handle, aes_key, audio_supported, battery_level>>
    /\ UNCHANGED <<frame_chunks, current_frame_start, current_total, current_is_iframe,
                   buffer, video_f, audio_f>>
    /\ UNCHANGED <<relayVars, obsVars, cryptoVars, serverVars>>
    /\ UNCHANGED <<m_pc, exit_code, args, now, ev, m_log>>

Event(kind) == [kind |-> kind, before |-> <<>>]

LoopContinuesIgnoringFlag == (now - start_time) < args.duration

\* stream.py:99  the loop condition
LoopContinues == (now - start_time) < args.duration /\ ~stop_flag

\* What the recorder's own steps leave alone
LoopFrame == UNCHANGED <<css, m_pc, exit_code, args, start_time, stop_flag, m_log>>

\* stream.py:99  the top of an iteration: the loop goes on into recv, or is
\* left and record() returns the path (141-165)
LoopCheck ==
    /\ pc = "check"
    /\ IF LoopContinues
       THEN /\ pc' = "loop"
            /\ UNCHANGED <<files, sigint, stream_sock, rec_ret>>
       ELSE Finish("path")
    /\ ev' = Event("check")
    /\ RecorderUntouched
    /\ LoopFrame
    /\ UNCHANGED <<s_out, now>>

\* stream.py:126
KeepaliveDue(t) == t % 5 = 0

\* The outcomes of a keepalive sendall: it succeeds, raises a transport
\* error, or times out (socket.timeout, which the handler at stream.py:138
\* catches even when the send raised it) with the handler's own send
\* succeeding or raising
SendOutcomes == {"ok", "error", "timeout", "timeout_error"}

\* stream.py:125-127  the rest of an iteration in which recv returned data
\* after blocking for d seconds
AfterData(d, ka) ==
    LET t == now + d
    IN  IF ~KeepaliveDue(t) \/ ka = "ok"
        THEN /\ now' = t
             /\ s_out' = IF KeepaliveDue(t)
                         THEN Append(s_out, SentPacket(KEEPALIVE_PACKET, "periodic", t))
                         ELSE s_out
             /\ ev' = Event("data")
             /\ Continue
        ELSE IF ka = "error"
        THEN /\ now' = t
             /\ s_out' = s_out
             /\ ev' = Event("send_error")
             /\ Finish("None")
        ELSE IF ka = "timeout"
        THEN /\ now' = t + STREAM_TIMEOUT
             /\ s_out' = Append(s_out, SentPacket(KEEPALIVE_PACKET, "send_timeout",
                                                  t + STREAM_TIMEOUT))
             /\ ev' = Event("send_timeout")
             /\ Continue
        ELSE /\ now' = t + STREAM_TIMEOUT
             /\ s_out' = s_out
             /\ ev' = Event("send_error")
             /\ Finish("None")

\* stream.py:101-127  an iteration in which recv returns data
IterData(m, c, d, ka) ==
    /\ RecvData(m, c)
    /\ AfterData(d, ka)
    /\ LoopFrame

TimeoutSendsTwice(out, t) ==
    out \o <<SentPacket(KEEPALIVE_PACKET, "timeout", t),
             SentPacket(KEEPALIVE_PACKET, "timeout", t)>>

\* stream.py:139
TimeoutSends(out, t) == Append(out, SentPacket(KEEPALIVE_PACKET, "timeout", t))

\* What a read timeout finds
Snapshot ==
    [buffer |-> buffer, frame_chunks |-> frame_chunks,
     current_frame_start |-> current_frame_start, current_total |-> current_total,
     current_is_iframe |-> current_is_iframe, video_f |-> video_f, audio_f |-> audio_f,
     sent |-> Len(s_out)]

\* stream.py:101, 138-139  recv raises socket.timeout after STREAM_TIMEOUT
\* seconds without data; the handler's sendall succeeds or raises
RecvTimeout(ok) ==
    /\ pc = "loop"
    /\ now' = now + STREAM_TIMEOUT
    /\ IF ok
       THEN /\ s_out' = TimeoutSends(s_out, now + STREAM_TIMEOUT)
            /\ ev' = [kind |-> "timeout", before |-> Snapshot]
            /\ Continue
       ELSE /\ s_out' = s_out
            /\ ev' = Event("timeout_send_error")
            /\ Finish("None")
    /\ RecorderUntouched
    /\ LoopFrame

\* stream.py:101, 148-157  recv raises a transport error
RecvError ==
    /\ pc = "loop"
    /\ ev' = Event("recv_error")
    /\ Finish("None")
    /\ RecorderUntouched
    /\ LoopFrame
    /\ UNCHANGED <<s_out, now>>

\* stream.py:22-25  SIGINT arrives while the recorder's handler is installed
SigInt ==
    /\ sigint = "recorder"
    /\ ~stop_flag
    /\ stop_flag' = TRUE
    /\ UNCHANGED <<clientVars, recVars, relayVars, obsVars, cryptoVars, sockVars,
                   serverVars>>
    /\ UNCHANGED <<m_pc, exit_code, args, now, start_time, sigint, files, rec_ret, ev,
                   m_log>>

\* v380_stream.py:113-151  record() has returned: whatever it returned, the
\* try block runs to its end and main() returns 0
MainAfterRecord ==
    /\ m_pc = "record"
    /\ pc = "returned"
    /\ Return(0)
    /\ UNCHANGED <<clientVars, recVars, relayVars, obsVars, cryptoVars, sockVars,
                   serverVars>>
    /\ UNCHANGED <<args, now, start_time, stop_flag, sigint, files, rec_ret, ev, m_log>>

\* v380_stream.py:148-149  finally: client.disconnect(), then the exit
MainFinally ==
    /\ m_pc = "finally"
    /\ Disconnect
    /\ m_pc' = "exited"
    /\ UNCHANGED <<exit_code, m_log>>
    /\ MainFrame

\* The recorder's own steps
RecorderStep ==
    \/ LoopCheck
    \/ \E m \in 0..Len(wire) :
          \E c \in {0} \cup (IF m < Len(wire) THEN RunCuts(wire[m + 1]) ELSE {}) :
             \E d \in Delays, ka \in SendOutcomes : IterData(m, c, d, ka)
    \/ \E ok \in BOOLEAN : RecvTimeout(ok)
    \/ RecvError
    \/ StreamClosed /\ m_pc = "record"

NextRun ==
    \/ \E ok \in BOOLEAN : MainConnect(ok)
    \/ \E io \in {"ok", "send", "recv"}, text \in Responses : MainLogin(io, text)
    \/ MainSetHandle
    \/ \E io \in StreamIo, response \in RunResponses, fs \in BOOLEAN :
          RecordStart(io, response, fs)
    \/ \E p \in RunPackets : Len(sent) < MaxRunPackets /\ CameraSend(p)
    \/ SigInt
    \/ RecorderStep
    \/ MainAfterRecord
    \/ MainFinally

SpecRun == InitRun /\ [][NextRun]_vars

\* The check at the top of the loop is not postponed for ever, and a recv
\* does not stay pending for ever: the socket's timeout (client.py:242) ends
\* it after STREAM_TIMEOUT seconds if nothing else has
SpecRunFair ==
    SpecRun /\ WF_vars(LoopCheck) /\ WF_vars(\E ok \in BOOLEAN : RecvTimeout(ok))

---------------------------------------------------------------------------
(* One recorder used for two recordings, with set_handle in between        *)

\* The handles given to set_handle between recordings
OverrideHandles == {H222, HMaxU32}

\* What the camera sends: the two fragments of an I-frame of 70 bytes and a
\* short single-fragment P-frame
OverridePackets ==
    { Packet(40, 2, 0, META \o Pattern(40, 1)),
      Packet(40, 2, 1, Pattern(30, 50)),
      Packet(41, 1, 0, META \o Pattern(2, 20)) }

\* client.set_handle(h) called by the owner of the client after record() has
\* returned: nothing of the recorder is touched (client.py:189-196)
SetHandleBetween(h) ==
    /\ pc = "returned"
    /\ SetHandle(h)
    /\ ClientOnly
    /\ UNCHANGED sockVars

\* stream.py:58-99  record() called again on the same StreamRecorder: a new
\* stream socket, new files and a new buffer; the reassembly state is set in
\* __init__ only (stream.py:38-42) and is what the last recording left
RecordAgain ==
    /\ pc = "returned"
    /\ \E r \in {create_stream_socket("ok", GoodResponse)} :
          /\ stream_sock' = r.sock
          /\ s_out' = r.out
          /\ css' = r.css
          /\ op' = OpRecord("create_stream_socket", r.css.ret, r.css.io, <<>>, 0)
    /\ stop_flag' = FALSE
    /\ start_time' = now
    /\ files' = OpenFiles
    /\ sigint' = "recorder"
    /\ pc' = "loop"
    /\ buffer' = <<>>
    /\ video_f' = <<>>
    /\ audio_f' = <<>>
    /\ wire' = <<>>
    /\ cut' = NoCut
    /\ UNCHANGED <<frame_chunks, current_frame_start, current_total, current_is_iframe>>
    /\ UNCHANGED <<sock, session, handle, aes_key, audio_supported, battery_level>>
    /\ UNCHANGED <<sent, split, obsVars, cryptoVars, serverVars>>
    /\ UNCHANGED <<m_pc, exit_code, args, now, rec_ret, ev, m_log>>

NextOverride ==
    \/ \E p \in OverridePackets : CameraSend(p)
    \/ \E m \in 0..Len(wire) :
          \E c \in {0} \cup (IF m < Len(wire) THEN CutPoints(wire[m + 1]) ELSE {}) :
             RecvData(m, c) /\ Healthy
    \/ StreamClosed
    \/ \E h \in OverrideHandles : SetHandleBetween(h)
    \/ RecordAgain

SpecOverride == Init /\ [][NextOverride]_vars

---------------------------------------------------------------------------
(* The read loop fed with audio packets                                    *)

\* The most audio packets the camera sends in one run
MaxAudioPackets == 1

\* What the camera sends: a packet of metadata only, packets of metadata and
\* audio, a continuation packet, the longest payload and the highest fragment
\* count the sanity check lets through, and one beyond each of them
AudioPackets ==
    { Packet(24, 1, 0, Pattern(16, 7)),
      Packet(24, 1, 0, Pattern(32, 7)),
      Packet(24, 1, 1, Pattern(16, 7)),
      Packet(24, 10, 0, Pattern(1000, 7)),
      Packet(24, 11, 0, Pattern(32, 7)),
      Packet(24, 1, 0, Pattern(1001, 7)) }

AudioSend(p) ==
    /\ Len(sent) < MaxAudioPackets
    /\ CameraSend(p)

\* The recorder inside its read loop, for a camera with or without audio
InitAudio ==
    /\ sock = "connected"
    /\ session = S111
    /\ handle = H222
    /\ aes_key = generate_aes_key(H222)
    /\ audio_supported \in BOOLEAN
    /\ battery_level = 80
    /\ op = [name |-> "login", ret |-> "True", io |-> "ok", text |-> <<>>,
             requests |-> 1,
             before |-> [session |-> None, handle |-> None, aes_key |-> None]]
    /\ RecInit /\ RelayInit /\ ObsInit /\ CryptoIdle /\ Recording /\ ServerIdle

NextAudio ==
    \/ \E p \in AudioPackets : AudioSend(p)
    \/ \E m \in 0..Len(wire) :
          \E c \in {0} \cup (IF m < Len(wire) THEN CutPoints(wire[m + 1]) ELSE {}) :
             RecvData(m, c) /\ Healthy

SpecAudio == InitAudio /\ [][NextAudio]_vars

---------------------------------------------------------------------------
(* The read loop fed with fragments of longer frames                       *)

\* What the camera sends: a single-fragment I-frame with a payload of 64
\* bytes (header 7F 28 00 01 00 00 00 40 00 00 00 00), the three fragments
\* of a P-frame, and a fragment with index 1 that is marked as I-frame
FramePackets ==
    { Packet(40, 1, 0, META \o Pattern(48, 3)),
      Packet(41, 3, 0, META \o Pattern(2, 1)),
      Packet(41, 3, 1, Pattern(3, 50)),
      Packet(41, 3, 2, Pattern(3, 60)),
      Packet(40, 3, 1, Pattern(3, 70)) }

NextFrames ==
    \/ \E p \in FramePackets : CameraSend(p)
    \/ \E m \in 0..Len(wire) :
          \E c \in {0} \cup (IF m < Len(wire) THEN CutPoints(wire[m + 1]) ELSE {}) :
             RecvData(m, c) /\ Healthy

SpecFrames == Init /\ [][NextFrames]_vars

---------------------------------------------------------------------------
(* Properties of decrypt_64_80 (SpecCrypto)                                *)

\* C7: decrypt_64_80 returns as many bytes as it is given; byte i comes from
\* the AES-ECB decryption of its 16-byte block iff (i mod 80) < 64 and the
\* 64-byte group holding it lies inside the input (80*floor(i/80)+64 <= L);
\* every other byte (the 16-byte gap of a window, a trailer, a final partial
\* window) is the input byte.
C7_WindowRule ==
    c_done =>
      /\ Len(c_out) = Len(c_in)
      /\ \A i \in 0..(Len(c_in) - 1) :
           LET w      == i \div 80
               inside == (i % 80) < 64 /\ 80 * w + 64 <= Len(c_in)
               b      == 80 * w + 16 * ((i % 80) \div 16)
           IN  At(c_out, i) =
                 IF inside
                 THEN At(AESDecryptBlock(aes_key, SubSeq(c_in, b + 1, b + 16)), i - b)
                 ELSE At(c_in, i)

\* An input of a full window and a final partial window has been decrypted
C7_Witness ==
    /\ c_done
    /\ Len(c_in) > 80
    /\ Len(c_in) % 80 \in 1..63
    /\ c_out # c_in
    /\ SubSeq(c_out, 81, Len(c_out)) = SubSeq(c_in, 81, Len(c_in))

---------------------------------------------------------------------------
(* Properties of login (SpecLogin)                                         *)

\* The login response recv returned carries the object v
Carries(text, v) == text = Dump(v) \/ text = <<"~", "~">> \o Dump(v)

C9_ErrorCodeFailsLogin ==
    \A v \in JsonValues :
      ( /\ op.name = "login" /\ op.io = "ok" /\ Carries(op.text, v)
        /\ (~v.has_v380 \/ (v.result = "object" /\ v.code # 0)) )
      => /\ op.ret = "False"
         /\ session = op.before.session
         /\ handle = op.before.handle

\* C10: an I/O error on the control socket, or a response that does not
\* parse, makes login return failure (no exception leaves it), with session,
\* handle and key unchanged and the request sent once.
C10_IoErrorReturnsFailure ==
    ( /\ op.name = "login" /\ op.requests > 0 /\ sock = "connected"
      /\ (op.io # "ok" \/ \A v \in JsonValues : ~Carries(op.text, v)) )
    => /\ op.ret = "False"
       /\ session = op.before.session
       /\ handle = op.before.handle
       /\ aes_key = op.before.aes_key
       /\ op.requests = 1

---------------------------------------------------------------------------
(* Properties of the reassembler (Spec)                                    *)

NumVideo(ps) == Cardinality({i \in 1..Len(ps) : IsVideo(ps[i])})

\* Every byte the camera sent has been handed to _process_stream_data and
\* every video packet was parsed as a packet
AllParsed == wire = <<>> /\ buffer = <<>> /\ npkts = Len(sent)

\* ps are the n fragments, indices 0..n-1 once each, of one video frame
FragmentsOfOneFrame(ps) ==
    /\ ps # <<>>
    /\ \A i \in 1..Len(ps) :
         IsVideo(ps[i]) /\ ps[i].total = Len(ps) /\ ps[i].kind = ps[1].kind
    /\ \A k \in 0..(Len(ps) - 1) : Cardinality({i \in 1..Len(ps) : ps[i].idx = k}) = 1

InIndexOrder(ps) == \A i \in 1..Len(ps) : ps[i].idx = i - 1

\* The payload of the fragment with index k
PayloadOf(ps, k) == ps[CHOOSE i \in 1..Len(ps) : ps[i].idx = k].payload

\* The frame the fragments carry: payloads by index, the first without its
\* first 16 bytes
OriginalFrame(ps) ==
    Concat([k \in 1..Len(ps) |->
        IF k = 1 THEN SubSeq(PayloadOf(ps, 0), 17, Len(PayloadOf(ps, 0)))
        ELSE PayloadOf(ps, k - 1)])

\* What in-order delivery of the fragments makes the recorder emit
InOrderOutput(ps) ==
    IF ps[1].kind = 40 \/ Len(OriginalFrame(ps)) >= 64
    THEN decrypt_64_80(OriginalFrame(ps), aes_key)
    ELSE OriginalFrame(ps)

\* C1: when the n fragments of a frame have all been delivered, in any
\* arrival order, the recorder has emitted one frame, whose bytes are those
\* of in-order delivery.
C1_AnyArrivalOrder ==
    (FragmentsOfOneFrame(sent) /\ AllParsed)
    => /\ Len(log) = 1
       /\ log[1].out = InOrderOutput(sent)
       /\ video_f = InOrderOutput(sent)

\* C2: a complete frame delivered in index order, in one recv or in several
\* that end at packet boundaries, is reassembled (before decryption) to the
\* original frame bytes, and is emitted once.
C2_RoundTrip ==
    (FragmentsOfOneFrame(sent) /\ InIndexOrder(sent) /\ ~split /\ wire = <<>>)
    => /\ Len(log) = 1
       /\ log[1].data = OriginalFrame(sent)
       /\ video_f = log[1].out
       /\ buffer = <<>>
       /\ ~frame_chunks.present

\* A two-fragment frame has been delivered in order and reassembled
C2_Witness ==
    /\ FragmentsOfOneFrame(sent) /\ InIndexOrder(sent) /\ Len(sent) = 2
    /\ ~split /\ wire = <<>>
    /\ Len(log) = 1 /\ log[1].site = "complete"
    /\ Len(log[1].data) = 22

\* C3: when a recv ends inside a video packet, after any proper prefix of
\* it, the bytes kept for the next read are that prefix, and once the rest
\* has arrived every video packet sent has been parsed.
C3_TruncatedPacketKept ==
    /\ (cut.at > 0 /\ At(cut.pkt, 1) \in {40, 41})
         => buffer = SubSeq(cut.pkt, 1, cut.at)
    /\ (wire = <<>> /\ cut.at = 0) => npkts = NumVideo(sent)

\* C4: frames are written in the order in which their fragment_index 0
\* packets arrived: the emitted frames have increasing first-packet
\* ordinals and the video output is their bytes in that order.
C4_FrameOrder ==
    /\ \A i, j \in 1..Len(log) : i < j => log[i].first < log[j].first
    /\ video_f = Concat([i \in 1..Len(log) |-> log[i].out])

\* Two frames with different, non-empty bytes have been emitted
C4_Witness ==
    /\ Len(log) = 2
    /\ log[1].out # <<>> /\ log[2].out # <<>>
    /\ log[1].out # log[2].out
    /\ log[1].site = "flush"

\* C5: every emitted frame is its fragment_index 0 payload without its first
\* 16 bytes followed by the whole payloads of its other fragments, it has
\* one fragment_index 0 chunk, and so has every open frame.
C5_PrefixStrippedOnce ==
    /\ \A n \in 1..Len(log) :
         LET e == log[n]
             s == SortChunks(e.chunks)
         IN  /\ Cardinality({i \in 1..Len(e.chunks) : e.chunks[i][1] = 0}) = 1
             /\ e.data = Concat([i \in 1..Len(s) |->
                           IF s[i][1] = 0 THEN SubSeq(s[i][2], 17, Len(s[i][2]))
                           ELSE s[i][2]])
             /\ Len(e.data) = SumBytes([i \in 1..Len(s) |-> Len(s[i][2])])
                              - Min(16, Len(PayloadOf([i \in 1..Len(s) |->
                                     [idx |-> s[i][1], payload |-> s[i][2]]], 0)))
    /\ frame_chunks.present =>
         Cardinality({i \in 1..Len(frame_chunks.current) :
                        frame_chunks.current[i][1] = 0}) = 1

\* A frame of two fragments, the second longer than 16 bytes, was emitted
C5_Witness ==
    \E n \in 1..Len(log) :
      /\ Len(log[n].chunks) = 2
      /\ Len(log[n].chunks[2][2]) > 16
      /\ Len(log[n].data) = Len(log[n].chunks[1][2]) + Len(log[n].chunks[2][2]) - 16

\* C6: an emitted frame went through decrypt_64_80 iff it is an I-frame
\* (kind 0x28) or is at least 64 bytes long after the strip; a shorter
\* P-frame is written unchanged.
C6_DecryptRule ==
    \A n \in 1..Len(log) :
      LET e == log[n] IN
      /\ e.decrypted <=> (e.kind = 40 \/ Len(e.data) >= 64)
      /\ e.out = IF e.decrypted THEN decrypt_64_80(e.data, aes_key) ELSE e.data
      /\ (e.kind = 41 /\ Len(e.data) < 64) => e.out = e.data

\* A P-frame of 64 bytes was decrypted and a shorter P-frame was not
C6_Witness ==
    /\ \E n \in 1..Len(log) :
         log[n].kind = 41 /\ Len(log[n].data) = 64 /\ log[n].out # log[n].data
    /\ \E n \in 1..Len(log) :
         log[n].kind = 41 /\ Len(log[n].data) < 64 /\ log[n].out = log[n].data

---------------------------------------------------------------------------
(* Properties of create_stream_socket (SpecStream)                         *)

\* C12: create_stream_socket returns an open socket only if the client is
\* logged in and the relay's response has at least 12 bytes, begins 0x91 0x01
\* and carries 04 00 00 00 (status 4) at offset 8; then the socket has been
\* sent the 256-byte opening packet, the 256-byte init packet and the 16-byte
\* keepalive, in that order. In every other case the call returns None,
\* neither init nor keepalive has been sent, and the socket is not left open.
C12_StreamHandshake ==
    css.called =>
      LET good == /\ css.logged_in
                  /\ Len(css.response) >= 12
                  /\ css.response[1] = 145 /\ css.response[2] = 1
                  /\ SubSeq(css.response, 9, 12) = <<4, 0, 0, 0>>
          whys == [i \in 1..Len(s_out) |-> s_out[i].why]
      IN  /\ css.ret = "socket" =>
                /\ good
                /\ stream_sock = "open"
                /\ whys = <<"open", "init", "handshake">>
                /\ Len(s_out[1].pkt) = 256
                /\ s_out[2].pkt = INIT_PACKET /\ Len(INIT_PACKET) = 256
                /\ SubSeq(INIT_PACKET, 1, 6) = <<47, 1, 0, 0, 1, 48>>
                /\ s_out[3].pkt = <<1, 33, 0, 0, 0, 0, 0, 0, 0, 16, 0, 0, 0, 0, 0, 0>>
          /\ css.ret # "socket" =>
                /\ css.ret = "None"
                /\ stream_sock # "open"
          /\ ~good =>
                /\ css.ret = "None"
                /\ \A i \in 1..Len(s_out) : s_out[i].why = "open"
          /\ \A i \in 1..Len(s_out) :
                s_out[i].why # "open" => good /\ i > 1 /\ s_out[1].why = "open"

\* a logged-in client whose handshake was answered with status 4
C12_Witness ==
    /\ css.called /\ css.ret = "socket"
    /\ stream_sock = "open"
    /\ Len(s_out) = 3

---------------------------------------------------------------------------
(* Properties of main() and of record()'s read loop (SpecRun, SpecRunFair) *)

\* The duration has elapsed or the cancellation flag is set
Expired == stop_flag \/ (now - start_time) >= args.duration

InLoop == pc \in {"check", "loop"}

\* C16: the read loop stops: once the duration has elapsed or the
\* cancellation flag is set, the check at the top of the loop never enters
\* another recv, and - every pending recv returning - the loop is left and
\* record returns.
C16_LoopStops ==
    /\ [][(pc = "check" /\ Expired) => pc' # "loop"]_vars
    /\ (InLoop /\ Expired) ~> (pc = "returned" /\ rec_ret # "none")

\* the flag is set while a recv is pending, before the duration has elapsed
C16_Witness ==
    /\ pc = "loop"
    /\ stop_flag
    /\ (now - start_time) < args.duration

\* C11: the program exits with status 1 whenever connect or login failed or
\* the stream could not be opened, and with status 0 only when login and the
\* stream open both succeeded.
C11_ExitCode ==
    m_pc = "exited" =>
      /\ (\/ m_log.connect = "False"
          \/ m_log.login \in {"False", "raised"}
          \/ (css.called /\ css.ret = "None")) => exit_code = 1
      /\ exit_code = 0 => (m_log.login = "True" /\ css.called /\ css.ret = "socket")

\* C13: any two consecutive periodic keepalives of the read loop are at least
\* 5 seconds apart, however many reads completed in between.
C13_KeepaliveCadence ==
    \A i, j \in 1..Len(s_out) :
       ( /\ i < j
         /\ s_out[i].why = "periodic" /\ s_out[j].why = "periodic"
         /\ \A k \in (i + 1)..(j - 1) : s_out[k].why # "periodic" )
       => s_out[j].t - s_out[i].t >= 5

\* C14: after a read timeout (whose keepalive send did not raise) exactly one
\* more packet has been sent, the keepalive 01 21 00 00 00 00 00 00 00 10 00
\* 00 00 00 00 00; the recording goes on - the next step is the check at the
\* top of the loop, with the socket and the files open - and the buffer, the
\* reassembly state and the outputs are what the timeout found.
C14_TimeoutKeepalive ==
    ev.kind = "timeout" =>
      /\ Len(s_out) = ev.before.sent + 1
      /\ s_out[Len(s_out)].pkt = <<1, 33, 0, 0, 0, 0, 0, 0, 0, 16, 0, 0, 0, 0, 0, 0>>
      /\ s_out[Len(s_out)].why = "timeout"
      /\ pc = "check" /\ rec_ret = "none"
      /\ stream_sock = "open" /\ files.video = "open" /\ sigint = "recorder"
      /\ buffer = ev.before.buffer
      /\ frame_chunks = ev.before.frame_chunks
      /\ current_frame_start = ev.before.current_frame_start
      /\ current_total = ev.before.current_total
      /\ current_is_iframe = ev.before.current_is_iframe
      /\ video_f = ev.before.video_f /\ audio_f = ev.before.audio_f

\* a timeout while a part of a packet is waiting in the buffer
C14_Witness ==
    /\ ev.kind = "timeout"
    /\ buffer # <<>>

\* C15: at the top of every iteration of the read loop no complete frame is
\* open: the open frame, if any, has fewer chunks than its total, and every
\* frame that was completed is in the video output.
C15_NoCompleteOpenFrame ==
    InLoop =>
      /\ ~(frame_chunks.present /\ Len(frame_chunks.current) >= current_total)
      /\ video_f = Concat([i \in 1..Len(log) |-> log[i].out])

\* a partial frame is open at the top of the loop after a frame was emitted
C15_Witness ==
    /\ InLoop
    /\ frame_chunks.present /\ Len(frame_chunks.current) < current_total
    /\ Len(log) >= 1

\* C17: when recv or a keepalive send raises inside the loop, record has
\* returned None; and whenever record has returned after opening the stream
\* socket, no file is left open (each file that was opened is closed), the
\* stream socket is closed and the previous SIGINT handler is back.
C17_CleanupOnEveryExit ==
    /\ ev.kind \in {"recv_error", "send_error", "timeout_send_error"}
         => pc = "returned" /\ rec_ret = "None"
    /\ (pc = "returned" /\ css.called /\ css.ret = "socket") =>
         /\ \A k \in DOMAIN files : files[k] # "open"
         /\ ev.kind # "none" =>
               /\ files.video = "closed"
               /\ files.audio = "closed" <=> record_audio
               /\ files.raw = "closed" <=> args.debug
         /\ stream_sock = "closed"
         /\ sigint = "previous"

\* a keepalive send raised while the video, audio and raw files were open
C17_Witness ==
    /\ pc = "returned"
    /\ ev.kind = "send_error"
    /\ files.video = "closed" /\ files.raw = "closed"

---------------------------------------------------------------------------
(* Properties of packetize_nal (SpecRtp)                                   *)

\* What follows the 12-byte RTP header
RtpPayload(packet) == SubSeq(packet, 13, Len(packet))

\* The sequence number in an RTP header
RtpSequence(packet) == packet[3] * 256 + packet[4]

\* The NAL a receiver rebuilds from FU packets: the 2-byte header from the
\* first packet's FU indicator and FU-header type, then the fragment data
Depacketize(packets) ==
    LET p1 == RtpPayload(packets[1])
    IN  <<(p1[1] \div 128) * 128 + (p1[3] % 64) * 2 + (p1[1] % 2), p1[2]>>
        \o Concat([i \in 1..Len(packets) |->
                      SubSeq(RtpPayload(packets[i]), 4, Len(RtpPayload(packets[i])))])

\* C18: a NAL of at most 1400 bytes becomes exactly one RTP packet whose
\* payload is the NAL; a longer one becomes at least two FU packets (type
\* 49, at most 1397 NAL bytes each, start bit only on the first, end bit
\* only on the last) from which depacketizing gives the NAL back.
C18_PacketizeRoundTrip ==
    p_done =>
      IF Len(nal_in) <= 1400
      THEN Len(pkts_out) = 1 /\ RtpPayload(pkts_out[1]) = nal_in
      ELSE /\ Len(pkts_out) >= 2
           /\ \A i \in 1..Len(pkts_out) :
                LET p == RtpPayload(pkts_out[i])
                IN  /\ Len(p) > 3
                    /\ (p[1] \div 2) % 64 = 49
                    /\ Len(p) - 3 <= 1397
                    /\ (p[3] \div 128 = 1) <=> (i = 1)
                    /\ ((p[3] \div 64) % 2 = 1) <=> (i = Len(pkts_out))
           /\ Depacketize(pkts_out) = nal_in

\* A NAL with every header bit set was cut into a first, a middle and a
\* last fragment while the sequence wrapped
C18_Witness ==
    /\ p_done
    /\ Len(nal_in) > 1400
    /\ nal_in[1] = 255
    /\ Len(pkts_out) = 3
    /\ RtpSequence(pkts_out[1]) = 65535
    /\ RtpSequence(pkts_out[2]) = 0
    /\ sequence = 2

---------------------------------------------------------------------------
(* Properties of the fan-out (SpecRtsp)                                    *)

\* The packets frame f brought to connection c for its list entry i
PacketsFor(c, f, i) ==
    LET es == SelectSeq(rx[c], LAMBDA e : e.frame = f /\ e.entry = i)
    IN  [k \in 1..Len(es) |-> es[k].pkt]

\* Connection c was served frame f for its list entry i, and no send to it
\* raised
Served(c, f, i) ==
    \E k \in 1..Len(rx[c]) : rx[c][k].frame = f /\ rx[c][k].entry = i /\ rx[c][k].ok

\* C19: for each frame passed to send_frame, every enrolled viewer is sent
\* the same sequence of RTP packets: the same bytes, so the same sequence
\* numbers, timestamps, ssrc and payloads.  Stated for two different
\* viewers to neither of which a send raised.
C19_SamePacketsToAll ==
    \A f \in 1..nframes : \A c1, c2 \in Conns : \A i1, i2 \in 1..MaxClients :
        (c1 # c2 /\ Served(c1, f, i1) /\ Served(c2, f, i2))
        => PacketsFor(c1, f, i1) = PacketsFor(c2, f, i2)

\* No send to connection c has raised, its sockets are open, and c was in
\* the list once whenever a frame was sent to it
CleanSession(c) ==
    /\ ~conns[c].closed
    /\ \A k1, k2 \in 1..Len(rx[c]) :
        /\ rx[c][k1].ok
        /\ rx[c][k1].frame = rx[c][k2].frame => rx[c][k1].entry = rx[c][k2].entry

\* C20: each packet sent to a viewer has a sequence number exactly 1 greater
\* (mod 2^16) than the previous packet sent to that viewer, however many
\* other viewers are enrolled.  Stated for the viewers enrolled once and to
\* which no send raised.
C20_NoSequenceGaps ==
    \A c \in Conns :
        CleanSession(c) =>
          \A k \in 1..(Len(rx[c]) - 1) :
              RtpSequence(rx[c][k + 1].pkt) = (RtpSequence(rx[c][k].pkt) + 1) % 65536

\* The packets that call number f of send_frame brought for list entry i,
\* in the history h of one connection
PacketsOf(h, f, i) ==
    LET es == SelectSeq(h, LAMBDA e : e.frame = f /\ e.entry = i)
    IN  [k \in 1..Len(es) |-> es[k].pkt]

\* C21: every RTP packet built carries the current sequence value, after
\* which the sequence advances by exactly 1 modulo 2^16; nothing else
\* (advance_timestamp, enrolling, un-enrolling) changes it.  So a step that
\* is not a call of send_frame leaves the sequence alone, and a call in which
\* no send raises numbers the packets it built, in the order it built them,
\* from the sequence it started with, and leaves the sequence that many
\* further on.
C21_SequenceAdvance ==
    [][ /\ (nframes' = nframes) => (sequence' = sequence)
        /\ (nframes' # nframes /\ clients' = clients) =>
             LET built == Concat([i \in 1..Len(clients) |->
                                     PacketsOf(rx'[clients[i]], nframes', i)])
             IN  /\ \A k \in 1..Len(built) :
                       RtpSequence(built[k]) = (sequence + k - 1) % 65536
                 /\ sequence' = (sequence + Len(built)) % 65536
      ]_vars

\* Two viewers were sent a frame of four NALs: eight packets were built,
\* the sequence wrapped from 0xFFFF to 0 on the way, and one of the viewers
\* has left since
C21_Witness ==
    /\ nframes = 1
    /\ sequence = 6
    /\ clients = <<2>>
    /\ Len(rx[1]) = 4 /\ Len(rx[2]) = 4
    /\ RtpSequence(rx[1][2].pkt) = 65535
    /\ RtpSequence(rx[1][3].pkt) = 0
    /\ RtpSequence(rx[2][4].pkt) = 5

\* The timestamp in an RTP header, as limbs
RtpTimestamp(packet) == <<packet[7] * 256 + packet[8], packet[5] * 256 + packet[6]>>

\* The marker bit of an RTP header
RtpMarker(packet) == packet[2] \div 128

\* Which of the frames of the n-th read holds the j-th NAL of its video
RECURSIVE FrameOfNal(_, _, _)
FrameOfNal(frames, j, u) ==
    IF u >= Len(frames) \/ j <= Len(parse_nal_units(frames[u])) THEN u
    ELSE FrameOfNal(frames, j - Len(parse_nal_units(frames[u])), u + 1)

\* The video frame (access unit) a sent packet belongs to: the read and the
\* frame's place among the frames of that read
UnitOf(e) == <<e.frame, FrameOfNal(RtspRead(e.frame), e.nal, 1)>>

\* C22: all packets of one video frame sent to a viewer carry one timestamp,
\* and the packets of the next frame sent to it carry that timestamp plus
\* 3600 (mod 2^32), also when one read of the stream socket completes
\* several frames.  Stated for the viewers enrolled once and to which no
\* send raised.
C22_TimestampPerFrame ==
    \A c \in Conns :
        CleanSession(c) =>
          \A k \in 1..(Len(rx[c]) - 1) :
              LET a  == RtpTimestamp(rx[c][k].pkt)
                  b  == RtpTimestamp(rx[c][k + 1].pkt)
                  lo == a[1] + 3600
              IN  IF UnitOf(rx[c][k]) = UnitOf(rx[c][k + 1])
                  THEN b = a
                  ELSE b = <<lo % 65536, (a[2] + (lo \div 65536)) % 65536>>

\* C23: among the packets sent to a viewer for one access unit the marker
\* bit is set on exactly one, the last (the last fragment of the unit's
\* last NAL), and is clear on the others.  Stated for the viewers enrolled
\* once and to which no send raised.
C23_MarkerPerAccessUnit ==
    \A c \in Conns :
        CleanSession(c) =>
          \A k \in 1..Len(rx[c]) :
              LET last == \/ k = Len(rx[c])
                          \/ UnitOf(rx[c][k + 1]) # UnitOf(rx[c][k])
              IN  RtpMarker(rx[c][k].pkt) = (IF last THEN 1 ELSE 0)

NalType(nal) == (nal[1] \div 2) % 64

\* The video holds a VPS, an SPS and a PPS (NAL types 32, 33, 34)
CarriesParameterSets(video) ==
    \A t \in {32, 33, 34} :
        \E j \in 1..Len(parse_nal_units(video)) : NalType(parse_nal_units(video)[j]) = t

\* C25: the SDP a DESCRIBE returns always holds the lines m=video 0 RTP/AVP
\* 96 and a=rtpmap:96 H265/90000, and holds the sprop-vps, sprop-sps and
\* sprop-pps attributes exactly when an I-frame carrying VPS, SPS and PPS
\* had passed through the live pipeline when it was answered.
C25_SdpCarriesParameterSets ==
    sdp # NoSdp =>
      /\ \E k \in 1..Len(sdp.lines) : sdp.lines[k] = "m=video 0 RTP/AVP 96"
      /\ \E k \in 1..Len(sdp.lines) : sdp.lines[k] = "a=rtpmap:96 H265/90000"
      /\ (sdp.sprop # <<>>)
         <=> (\E n \in 1..sdp.frames : CarriesParameterSets(RtspFrame(n)))

---------------------------------------------------------------------------
(* Properties of set_handle between recordings (SpecOverride)              *)

\* C26: set_handle(h) re-derives the key from h and invalidates the frames
\* assembled so far: no frame is emitted (decrypted) under a key other than
\* the one in force when its fragment_index 0 packet was collected.
C26_OverrideInvalidates ==
    /\ (handle # None /\ PacksAsU32(handle)) => aes_key = generate_aes_key(handle)
    /\ \A k \in 1..Len(log) : log[k].key = log[k].open_key

---------------------------------------------------------------------------
(* Properties of the session's lifetime (SpecStream)                       *)

\* C27: the session is live (is_connected) from a successful login until
\* disconnect or a failed stream handshake: it is live when login has
\* returned True, and it is not live after disconnect, nor after a
\* create_stream_socket call whose handshake the relay rejected.
C27_SessionLifetime ==
    /\ (op.name = "login" /\ op.ret = "True") => is_connected
    /\ op.name = "disconnect" => ~is_connected
    /\ (op.name = "create_stream_socket" /\ css.logged_in /\ css.io = "ok"
          /\ css.response # <<>> /\ css.ret = "None") => ~is_connected

---------------------------------------------------------------------------
(* Properties of the parse loop's single steps (Spec, SpecAudio)           *)

\* C28: a fragment_index 0 packet that arrives while a frame is open emits
\* the open frame if it holds at least total_fragments chunks and drops it
\* with no output otherwise; either way the new frame holds only the new
\* packet, with its own total and kind. A packet with a non-zero index that
\* arrives while no frame is open changes neither the state nor the output.
C28_FragmentZeroFlushes ==
    step.tag = "video" =>
      LET b == step.before
          a == step.after
      IN  /\ step.idx = 0 =>
                /\ a.chunks = Chunks(<< <<0, step.payload>> >>)
                /\ a.total = step.total
                /\ a.is_iframe = (step.kind = 40)
                /\ IF b.chunks.present /\ Len(b.chunks.current) >= b.total
                   THEN /\ Len(step.emitted) = 1
                        /\ step.emitted[1].chunks = b.chunks.current
                        /\ step.emitted[1].total = b.total
                        /\ step.emitted[1].is_iframe = b.is_iframe
                        /\ step.out = step.emitted[1].out
                   ELSE step.emitted = <<>> /\ step.out = <<>>
          /\ (step.idx # 0 /\ ~b.chunks.present) =>
                a = b /\ step.emitted = <<>> /\ step.out = <<>>

\* A complete frame was emitted by the fragment 0 that followed it, and the
\* last packet, a fragment 0 too, dropped a frame still short of a fragment
C28_Witness ==
    /\ Len(log) >= 1 /\ log[1].site = "flush"
    /\ step.tag = "video" /\ step.idx = 0
    /\ step.before.chunks.present
    /\ Len(step.before.chunks.current) < step.before.total
    /\ step.emitted = <<>>
    /\ step.after.total # step.before.total

\* C29: an audio header is rejected as spurious (the cursor moves on by one
\* byte, nothing is emitted) iff its payload_length is over 1000, or its
\* total_fragments is over 10, or the packet would end beyond the buffer;
\* otherwise it is accepted and the cursor jumps to the end of the packet.
C29_AudioSanityGate ==
    step.tag = "audio" =>
      LET packet_end == step.pos + HEADER_SIZE + step.pkt_len
      IN  IF step.pkt_len > 1000 \/ step.total > 10 \/ packet_end > step.size
          THEN step.pos_after = step.pos + 1 /\ step.out = <<>>
          ELSE step.pos_after = packet_end

\* A complete packet of 1000 payload bytes, the tenth part of ten, was
\* accepted
C29_Witness ==
    /\ step.tag = "audio"
    /\ step.pkt_len = 1000 /\ step.total = 10
    /\ step.pos_after = step.pos + 1012
    /\ buffer = <<>>

\* C30: an audio packet with fragment_index 0 whose payload is exactly the
\* 16 bytes of metadata is dropped: it adds no bytes to the audio output.
C30_MetadataOnlyDropped ==
    (/\ step.tag = "audio"
     /\ step.record_audio
     /\ step.idx = 0 /\ step.pkt_len = 16
     /\ step.pos_after = step.pos + HEADER_SIZE + 16) => step.out = <<>>

---------------------------------------------------------------------------
(* Properties of the reassembler on longer frames (SpecFrames)             *)

\* The frames emitted from the packet 7F 28 00 01 00 00 00 40 00 00 00 00
\* with its 64 bytes of payload and nothing else
ExampleFrames ==
    { k \in 1..Len(log) :
        /\ log[k].is_iframe /\ log[k].total = 1
        /\ Len(log[k].chunks) = 1
        /\ log[k].chunks[1][1] = 0
        /\ Len(log[k].chunks[1][2]) = 64 }

\* C31 as stated: the frame emitted from the single-fragment I-frame packet
\* with payload_length 64, whose first 16 payload bytes are metadata, is
\* empty.
C31_ExampleFrameEmpty ==
    \A k \in ExampleFrames : log[k].out = <<>>

\* C31, amended: the frame emitted from that packet is the 48 payload bytes
\* that follow the metadata, unchanged: they are fewer than 64, so no AES
\* group is decrypted.
C31_ExampleFramePassThrough ==
    \A k \in ExampleFrames :
        /\ Len(log[k].out) = 48
        /\ log[k].out = SubSeq(log[k].chunks[1][2], 17, 64)

\* The example packet was read on its own and its frame emitted
C31_Witness ==
    /\ Len(sent) = 1 /\ sent[1].kind = 40 /\ Len(sent[1].payload) = 64
    /\ Len(log) = 1 /\ ExampleFrames = {1}
    /\ video_f = SubSeq(sent[1].payload, 17, 64)

\* C35: every emitted frame holds exactly one payload for each fragment
\* index 0..total_fragments-1: none is missing and none is there twice.
C35_OnePayloadPerIndex ==
    \A k \in 1..Len(log) :
       \A i \in 0..(log[k].total - 1) :
          Cardinality({j \in 1..Len(log[k].chunks) : log[k].chunks[j][1] = i}) = 1

\* C36: every fragment in an emitted frame comes from a packet with the kind
\* byte of the frame's fragment_index 0 packet.
C36_OneKindPerFrame ==
    \A k \in 1..Len(log) :
       \A j \in 1..Len(log[k].chunks) :
          \A n \in 1..Len(sent) :
             (/\ sent[n].idx = log[k].chunks[j][1]
              /\ sent[n].payload = log[k].chunks[j][2]) => sent[n].kind = log[k].kind

\* C38: a frame is emitted at most once: no two emissions are of the same
\* frame, a frame that is open is not one that was emitted, and the packet
\* that completes a frame leaves no frame open.
C38_EmittedOnce ==
    /\ \A i, j \in 1..Len(log) : i # j => log[i].first # log[j].first
    /\ frame_chunks.present => \A k \in 1..Len(log) : log[k].first # open_first.ord
    /\ (step.tag = "video" /\ step.idx # 0 /\ step.emitted # <<>>) =>
          ~step.after.chunks.present

\* One frame was emitted by the fragment 0 that followed it and the next by
\* the end-of-call check; a fragment read later found no frame open
C38_Witness ==
    /\ Len(sent) = 3 /\ npkts = 3 /\ wire = <<>> /\ buffer = <<>>
    /\ Len(log) = 2 /\ log[1].site = "flush" /\ log[2].site = "end"
    /\ ~frame_chunks.present
    /\ step.tag = "video" /\ step.idx # 0 /\ ~step.before.chunks.present

---------------------------------------------------------------------------
(* Properties of the audio path across reads (SpecAudio)                   *)

\* C37: the audio output does not depend on how the stream is split across
\* recv calls.  When a read ends inside the payload of an audio packet that
\* passes the size gate and carries audio after its metadata, its header
\* being in the buffer, the packet is kept
\* for the next read: the cursor stays at its header, so that the packet is
\* emitted once it is whole and none of its bytes is scanned as a header.
C37_AudioSplitKept ==
    (/\ record_audio
     /\ cut.at >= HEADER_SIZE
     /\ At(cut.pkt, 1) = 24
     /\ U16(cut.pkt, 7) > META_SIZE
     /\ U16(cut.pkt, 7) <= 1000 /\ U16(cut.pkt, 3) <= 10)
       => (buffer = SubSeq(cut.pkt, 1, cut.at) /\ step.tag # "audio")

---------------------------------------------------------------------------
(* Properties of the server's threads (SpecRtsp)                           *)

\* C33: the packetizer's sequence and timestamp are written only by the
\* thread that calls send_frame: a step in which no send_frame call is made
\* (a control thread answering DESCRIBE, SETUP, PLAY or TEARDOWN, enrolling
\* or removing a viewer, the accept loop, stop) leaves both as they were.
C33_ControlThreadsLeaveRtp ==
    [][nframes' = nframes => (sequence' = sequence /\ timestamp' = timestamp
                              /\ ssrc' = ssrc)]_vars

\* Two viewers were enrolled by their control threads, a DESCRIBE was
\* answered, and a frame has moved the sequence number and the timestamp
C33_Witness ==
    /\ nframes = 1
    /\ sequence = 6 /\ timestamp = advance_timestamp(<<64000, 65535>>, TICKS)
    /\ sdp # NoSdp
    /\ conns[1].setup /\ conns[2].st = "ended"

\* C34: if sending to one viewer raises during send_frame, that viewer's
\* sockets are closed and it is taken off the list, while every other
\* enrolled viewer is sent all the packets of the frame and stays enrolled;
\* send_frame returns normally.
C34_SendErrorIsolated ==
    [][(nframes' = nframes + 1 /\ clients # <<>>) =>
          LET Full(i) ==
                LET got == PacketsOf(rx'[clients[i]], nframes', i)
                IN  [k \in 1..Len(got) |-> RtpPayload(got[k])]
                       = parse_nal_units(RtspFrame(nframes'))
              Listed(c) == \E j \in 1..Len(clients') : clients'[j] = c
          IN  \A i \in 1..Len(clients) :
                 LET c == clients[i]
                 IN  /\ ~Full(i) => (conns'[c].closed /\ ~Listed(c))
                     /\ (\A j \in 1..Len(clients) : clients[j] = c => Full(j)) =>
                           (Listed(c) /\ conns'[c].closed = conns[c].closed)]_vars

\* C39: no control connection appears more than once in the fan-out list,
\* whatever requests were made, so no viewer is sent the packets of a frame
\* twice.
C39_NoDuplicateViewers ==
    /\ \A i, j \in 1..Len(clients) : i # j => clients[i] # clients[j]
    /\ \A c \in Conns : \A f \in 1..nframes :
          \A k, l \in 1..Len(rx[c]) :
             (rx[c][k].frame = f /\ rx[c][l].frame = f) => rx[c][k].entry = rx[c][l].entry

---------------------------------------------------------------------------
(* Properties of the client's key (SpecStream)                             *)

\* C40: after any sequence of login, set_handle and disconnect calls, the
\* ones that fail or raise included, whenever is_connected is true the
\* client's cipher key is generate_aes_key of its current handle.
C40_KeyMatchesHandle ==
    is_connected => (PacksAsU32(handle) /\ aes_key = generate_aes_key(handle))

---------------------------------------------------------------------------
(* Properties of the server's lock (SpecLock)                              *)

\* C32: every change of the viewer list (the append of PLAY, the removal
\* when a handler ends, the removal of dead viewers in send_frame, the clear
\* of stop) is made by a thread that holds the server's lock, so no two
\* threads are changing or iterating the list at the same time.
C32_ListUnderLock ==
    /\ [](\A t \in Threads : th[t] \in Touching => lock = t)
    /\ [](\A t, u \in Threads : (t # u /\ th[t] \in Touching) => th[u] \notin Touching)
    /\ [][clients' # clients => \E t \in Threads : th[t] \in Touching /\ lock = t]_vars

\* A handler is about to append under the lock while the recorder, inside
\* send_frame, and stop wait for it
C32_Witness ==
    /\ th[Handler(2)] = "appending" /\ lock = Handler(2)
    /\ th[Recorder] = "send_lock"
    /\ th[MainThread] = "stop_lock"
    /\ th[Handler(1)] = "fin_lock"
    /\ clients = <<1>>

====
